---- MODULE Spec2Model ----
(***************************************************************************)
(* Model of the RAG knowledge-base proxy route (GET / POST / PATCH /       *)
(* DELETE handlers).  One request is handled at a time; every handler is   *)
(* cut at its `await fetch(...)` points, so that the order of the upstream *)
(* calls is visible.  Strings that the code inspects character by          *)
(* character (document names, storage paths, file names) are sequences of  *)
(* one-character strings; opaque texts (error texts, ids) are strings.     *)
(* The `timestamp` field of the envelopes is left out: no handler reads    *)
(* it.                                                                     *)
(*                                                                         *)
(* The page (src/app/page.tsx) is modelled next to the route, each part    *)
(* under a specification of its own while the other parts stay at rest:    *)
(* SpecNormalizer applies deepExtractResponse to a payload, SpecChat runs  *)
(* the chat controller (handleSend cut at its awaited agent call),         *)
(* SpecMarkdown runs renderMarkdown one line at a time.  JSON.parse is a   *)
(* table over the JSON texts of the payloads; ids and timestamps of chat   *)
(* messages and audit entries are left out.                                *)
(***************************************************************************)
EXTENDS Integers, Sequences, FiniteSets, TLC

\* ------------------------------------------------------------------ bounds
\* longest documentNames array of a delete request
MaxNames == 2
\* longest listing returned by the upstream list endpoint
MaxListing == 2

\* ------------------------------------------------------- JavaScript values
Undefined == [t |-> "undefined"]
Null == [t |-> "null"]
JsString(s) == [t |-> "string", s |-> s]
JsNumber(n) == [t |-> "number", n |-> n]
JsArray(a) == [t |-> "array", a |-> a]
JsObject(f) == [t |-> "object", f |-> f]

\* ToBoolean: what `!v`, `v || w` and filter(Boolean) test
Truthy(v) ==
  CASE v.t = "undefined" -> FALSE
    [] v.t = "null" -> FALSE
    [] v.t = "string" -> v.s # <<>>
    [] v.t = "number" -> v.n # 0
    [] OTHER -> TRUE

\* obj.key for an object value: undefined when the key is absent
Prop(obj, key) ==
  IF obj.t = "object" /\ key \in DOMAIN obj.f THEN obj.f[key] ELSE Undefined

\* a || b
Or(a, b) == IF Truthy(a) THEN a ELSE b

\* ------------------------------------------------ string methods (on chars)
Includes(s, c) == \E i \in 1..Len(s) : s[i] = c

EndsWith(s, suffix) ==
  /\ Len(suffix) <= Len(s)
  /\ SubSeq(s, Len(s) - Len(suffix) + 1, Len(s)) = suffix

LastIndexOf(s, c) ==
  IF Includes(s, c)
  THEN CHOOSE i \in 1..Len(s) : s[i] = c /\ \A j \in (i+1)..Len(s) : s[j] # c
  ELSE 0

\* s.split(c).pop(): the text after the last c, the whole of s without a c
SplitPop(s, c) == SubSeq(s, LastIndexOf(s, c) + 1, Len(s))

LowerChar(c) ==
  CASE c = "P" -> "p" [] c = "D" -> "d" [] c = "F" -> "f"
    [] c = "T" -> "t" [] c = "X" -> "x" [] c = "H" -> "h"
    [] c = "I" -> "i" [] c = "G" -> "g" [] c = "L" -> "l"
    [] c = "A" -> "a" [] c = "E" -> "e" [] OTHER -> c

ToLowerCase(s) == [i \in 1..Len(s) |-> LowerChar(s[i])]

\* all sequences over S of length at most n
RECURSIVE SeqsUpTo(_, _)
SeqsUpTo(S, n) ==
  IF n = 0 THEN {<<>>}
  ELSE LET shorter == SeqsUpTo(S, n - 1)
       IN shorter \cup {Append(q, e) : q \in {r \in shorter : Len(r) = n - 1}, e \in S}

\* -------------------------------------------------------- module constants
FILE_TYPE_MAP ==
  [mime \in {"application/pdf",
             "application/vnd.openxmlformats-officedocument.wordprocessingml.document",
             "text/plain"} |->
     CASE mime = "application/pdf" -> <<"p","d","f">>
       [] mime = "text/plain" -> <<"t","x","t">>
       [] OTHER -> <<"d","o","c","x">>]

\* `process.env.LYZR_API_KEY || ""`: unset, or one of two configured keys
ApiKeys == {"", "key-A", "key-B"}

\* ------------------------------------------------------- upstream outcomes
\* fetch() either rejects (network-level failure) or resolves with a
\* response: a status and a body.  A body has its raw text and what
\* JSON.parse makes of it (SyntaxErr when the text is not JSON).
SyntaxErr == [t |-> "SyntaxError"]
Pending == [t |-> "pending"]
Rejected(message) == [t |-> "rejected", message |-> message]
Resolved(status, text, json) ==
  [t |-> "resolved", status |-> status, text |-> text, json |-> json]

\* Response.ok
Ok(resp) == resp.status >= 200 /\ resp.status <= 299

NetworkMessages == {"fetch failed"}
FailStatuses == {404, 503}
ErrorTexts == {"e1", "e2"}

Rejections == {Rejected(m) : m \in NetworkMessages}
FailResponses == {Resolved(s, x, SyntaxErr) : s \in FailStatuses, x \in ErrorTexts}

\* storage paths the listing endpoint reports
\* ("array of file paths like ["storage/voicestream-dev-guide.pdf"]")
StoragePaths ==
  { <<"s","/","a">>, <<"t","/","a">>, <<"s","/","b",".","P","D","F">>, <<"a">>, <<"s","/">> }

Listings == SeqsUpTo(StoragePaths, MaxListing)

\* listings returned inside an object: the empty and the one-entry ones
WrappedListings == {l \in Listings : Len(l) <= 1}

PathArray(l) == JsArray([i \in 1..Len(l) |-> JsString(l[i])])

\* bodies of a 200 from the list endpoint: a bare array, an object holding
\* the array under `documents` or `data`, an empty object, null, not JSON
ListBodies ==
  {PathArray(l) : l \in Listings}
    \cup {JsObject([documents |-> PathArray(l)]) : l \in WrappedListings}
    \cup {JsObject([data |-> PathArray(l)]) : l \in WrappedListings}
    \cup {JsObject(<<>>), Null, SyntaxErr}

ListOutcomes ==
  Rejections \cup FailResponses \cup {Resolved(200, "body", j) : j \in ListBodies}

\* --------------------------------------------------------------- the state
VARIABLES
  LYZR_API_KEY,    \* module-level constant read from the environment
  pc,              \* where the handler of the current request is waiting
  request,         \* the request being handled
  calls,           \* upstream calls of this request, in the order issued
  response,        \* what the handler returned (NoResponse while running)
  trainData,       \* POST upload: decoded body of the successful attempt
  lastTrainError,  \* POST upload: error text of the latest failed attempt
  parserIdx,       \* POST upload: position of the for-loop over parsers
  deleteResponse,  \* DELETE: `response`, the first delete attempt's response
  fullPaths        \* DELETE: the resolved batch sent on the retry

\* the state of the page (src/app/page.tsx), which the route never touches
VARIABLES
  apiResult,       \* deepExtractResponse: the caller's object, as it is now
  argument,        \* deepExtractResponse: the value of apiResult at the call
  candidate,       \* deepExtractResponse: `data`, the candidate the paths chose
  extracted        \* deepExtractResponse: what the call returned or threw

normalizerVars == <<apiResult, argument, candidate, extracted>>

\* the chat controller: the useState cells of the page component
VARIABLES
  messages,        \* the chat messages of the current session
  inputValue,      \* the text in the textarea
  isLoading,       \* an agent call is in flight
  sessionId,       \* the id sent with every agent call of the session
  activeView,      \* chat | history | audit | kb
  auditLog,        \* one entry per completed exchange
  showSample,      \* the sample-data switch
  activeAgentId,   \* the agent shown as working, null when none
  agentCalls       \* callAIAgent calls, in the order issued, with their results

chatVars == <<messages, inputValue, isLoading, sessionId, activeView, auditLog,
              showSample, activeAgentId, agentCalls>>

\* the markdown renderer: the locals of renderMarkdown
VARIABLES
  lines,           \* text.split('\n')
  rendering,       \* where renderMarkdown is: called | loop | returned | null
  lineIndex,       \* `i`, the position of the for-loop over lines
  elements,        \* the nodes emitted so far
  inCodeBlock,     \* inside an open code fence
  codeLines,       \* the lines of the open code fence
  listItems,       \* the items of the accumulating list
  listType         \* 'ul' | 'ol' | null

markdownVars == <<lines, rendering, lineIndex, elements, inCodeBlock, codeLines,
                  listItems, listType>>

\* the inline formatter: the locals of formatInline
VARIABLES
  inlineText,      \* `text`, the argument of formatInline
  formatting,      \* where formatInline is: idle | loop | returned
  remaining,       \* the part of the text not yet tokenised
  tokens,          \* the nodes pushed so far
  formatted        \* what formatInline returned

inlineVars == <<inlineText, formatting, remaining, tokens, formatted>>

\* one knowledge-base section: the cells the page hands to KBSection
VARIABLES
  docs,            \* the listed documents (their file names)
  loading,         \* the section's loading flag
  statusMsg,       \* the section's status message
  mounted,         \* the mount effect has run
  operations       \* the list, upload and delete operations started so far

kbVars == <<docs, loading, statusMsg, mounted, operations>>

pageVars == <<normalizerVars, chatVars, markdownVars, inlineVars, kbVars>>

vars == <<LYZR_API_KEY, pc, request, calls, response, trainData,
          lastTrainError, parserIdx, deleteResponse, fullPaths, pageVars>>

\* deepExtractResponse has not been called
NotCalled == [outcome |-> "none"]

NormalizerIdle ==
  /\ apiResult = Undefined
  /\ argument = Undefined
  /\ candidate = Null
  /\ extracted = NotCalled

\* the page component as mounted
ChatIdle ==
  /\ messages = <<>>
  /\ inputValue = <<>>
  /\ isLoading = FALSE
  /\ sessionId = "id-1"
  /\ activeView = "chat"
  /\ auditLog = <<>>
  /\ showSample = FALSE
  /\ activeAgentId = Null
  /\ agentCalls = <<>>

\* renderMarkdown has not been called
MarkdownIdle ==
  /\ lines = <<>>
  /\ rendering = "idle"
  /\ lineIndex = 0
  /\ elements = <<>>
  /\ inCodeBlock = FALSE
  /\ codeLines = <<>>
  /\ listItems = <<>>
  /\ listType = "null"

\* formatInline has not been called
InlineIdle ==
  /\ inlineText = <<>>
  /\ formatting = "idle"
  /\ remaining = <<>>
  /\ tokens = <<>>
  /\ formatted = Undefined

\* the knowledge-base view has not been opened
KbIdle ==
  /\ docs = <<>>
  /\ loading = FALSE
  /\ statusMsg = <<>>
  /\ mounted = FALSE
  /\ operations = <<>>

PageIdle == NormalizerIdle /\ ChatIdle /\ MarkdownIdle /\ InlineIdle /\ KbIdle

NoRequest == [method |-> "none"]
NoResponse == [status |-> 0]

\* NextResponse.json(body, { status })
Json(body, status) == [status |-> status, body |-> body]

\* the catch-all of every handler:
\* error instanceof Error ? error.message : "Server error"
CatchAll(message) == Json([success |-> FALSE, error |-> <<message>>], 500)

\* message of the exception each failing step throws
SyntaxMessage == "Unexpected token"
TypeMessage == "Cannot read properties of null"

\* variant: the key check left out
KeyMissing_never(key) == FALSE

\* if (!LYZR_API_KEY)
KeyMissing(key) == key = ""

\* the upstream call a handler issues: fetch(url, { method, headers, body })
Call(endpoint, ragId, body) ==
  [endpoint |-> endpoint, ragId |-> ragId, body |-> body,
   xApiKey |-> LYZR_API_KEY, result |-> Pending]

\* the awaited fetch of the latest call settles with outcome o
Settle(o) == [calls EXCEPT ![Len(calls)].result = o]

Idle == pc = "idle"

\* locals of a fresh handler invocation
FreshLocals ==
  /\ trainData' = Null
  /\ lastTrainError' = ""
  /\ parserIdx' = 0
  /\ deleteResponse' = Pending
  /\ fullPaths' = <<>>

KeepLocals == UNCHANGED <<trainData, lastTrainError, parserIdx, deleteResponse, fullPaths>>

\* the handler returns r
Return(r) == response' = r /\ pc' = "done"

Init ==
  /\ LYZR_API_KEY \in ApiKeys
  /\ pc = "idle"
  /\ request = NoRequest
  /\ calls = <<>>
  /\ response = NoResponse
  /\ trainData = Null
  /\ lastTrainError = ""
  /\ parserIdx = 0
  /\ deleteResponse = Pending
  /\ fullPaths = <<>>
  /\ PageIdle

\* ------------------------------------------------------ document listing
\* Array.isArray(data) ? data : data.documents || data.data || []
\* (reading a property of null throws a TypeError)
FilePathsThrows(data) == data.t = "null"

FilePaths(data) ==
  IF data.t = "array" THEN data
  ELSE Or(Or(Prop(data, "documents"), Prop(data, "data")), JsArray(<<>>))

\* one element of `documents`
Document(filePath) ==
  LET fullPath == filePath.s
      popped == SplitPop(fullPath, "/")
      fileName == IF popped # <<>> THEN popped ELSE fullPath
      ext == ToLowerCase(SplitPop(fileName, "."))
      fileType == IF ext = <<"p","d","f">> THEN "pdf"
                  ELSE IF ext = <<"d","o","c","x">> THEN "docx"
                  ELSE IF ext = <<"t","x","t">> THEN "txt"
                  ELSE "unknown"
  IN [fileName |-> fileName, fullPath |-> fullPath,
      fileType |-> fileType, status |-> "active"]

Documents(filePaths) == [i \in 1..Len(filePaths.a) |-> Document(filePaths.a[i])]

\* the success envelope of a listing
ListSuccess(data, ragId) ==
  Json([success |-> TRUE, documents |-> Documents(FilePaths(data)), ragId |-> ragId], 200)

\* Default: return API status
ApiStatus ==
  Json([success |-> TRUE, message |-> "RAG Knowledge Base API is running"], 200)

RagIds == {Undefined, JsString(<<>>), JsString(<<"k","b">>)}

\* ----------------------------------------------------------------- GET
\* GET /api/rag[?ragId=...]
GET ==
  /\ Idle
  /\ \E ragId \in {Null, JsString(<<>>), JsString(<<"k","b">>)} :
       /\ request' = [method |-> "GET", ragId |-> ragId]
       /\ FreshLocals
       /\ IF KeyMissing(LYZR_API_KEY)
          THEN /\ calls' = <<>>
               /\ Return(Json([success |-> FALSE,
                               error |-> <<"LYZR_API_KEY not configured">>], 500))
          ELSE IF Truthy(ragId)
          THEN /\ calls' = <<Call("list", ragId, Undefined)>>
               /\ response' = NoResponse
               /\ pc' = "GET_fetch"
          ELSE /\ calls' = <<>>
               /\ Return(ApiStatus)
  /\ UNCHANGED <<LYZR_API_KEY, pageVars>>

\* the listing fetch of GET settles
GET_fetch ==
  /\ pc = "GET_fetch"
  /\ \E o \in ListOutcomes :
       /\ calls' = Settle(o)
       /\ IF o.t = "rejected" THEN Return(CatchAll(o.message))
          ELSE IF Ok(o)
          THEN IF o.json = SyntaxErr THEN Return(CatchAll(SyntaxMessage))
               ELSE IF FilePathsThrows(o.json) THEN Return(CatchAll(TypeMessage))
               ELSE Return(ListSuccess(o.json, request.ragId))
          ELSE Return(ApiStatus)
  /\ KeepLocals
  /\ UNCHANGED <<LYZR_API_KEY, pageVars, request>>

\* ------------------------------------------------- request bodies (JSON)
\* what `await request.json()` gives: it throws on a body that is not JSON
ListRequestBodies ==
  {SyntaxErr, Null} \cup {JsObject([ragId |-> r]) : r \in RagIds}

\* `const { ragId } = body` throws a TypeError on null
DestructureThrows(body) == body.t = "null"

\* variant: the ragId check left out
ListBodyInvalid_never(ragId) == FALSE

\* if (!ragId)
ListBodyInvalid(ragId) == ~Truthy(ragId)

\* ------------------------------------------------------- upload: the file
\* File objects of the multipart form: declared media type and name
MediaTypes ==
  {"application/pdf", "text/plain", "image/png", "",
   "application/vnd.openxmlformats-officedocument.wordprocessingml.document"}

FileNames ==
  { <<"a",".","p","d","f">>, <<"a",".","P","D","F">>, <<"a",".","t","x","t">>,
    <<"a",".","d","o","c","x">>, <<"a",".","p","n","g">>, <<"a">>, <<"p","d","f">>,
    <<"a",".","p","d","f",".","p","n","g">> }

Files == {[t |-> "file", type |-> m, name |-> n] : m \in MediaTypes, n \in FileNames}

\* formData.get("ragId"), formData.get("file"): null when the field is absent
Forms ==
  {[ragId |-> r, file |-> f] :
     r \in {Null, JsString(<<>>), JsString(<<"k","b">>)}, f \in {Null} \cup Files}

\* no type resolved (`undefined`)
NoFileType == <<>>

\* variant: the extension consulted before the media type
ResolveFileType_extFirst(file) ==
  LET byMime == IF file.type \in DOMAIN FILE_TYPE_MAP
                THEN FILE_TYPE_MAP[file.type] ELSE NoFileType
      ext == ToLowerCase(SplitPop(file.name, "."))
  IN IF ext = <<"p","d","f">> THEN <<"p","d","f">>
     ELSE IF ext = <<"d","o","c","x">> THEN <<"d","o","c","x">>
     ELSE IF ext = <<"t","x","t">> THEN <<"t","x","t">>
     ELSE byMime

\* let fileType = FILE_TYPE_MAP[file.type];
\* if (!fileType) { const ext = file.name.split(".").pop()?.toLowerCase(); ... }
ResolveFileType(file) ==
  LET byMime == IF file.type \in DOMAIN FILE_TYPE_MAP
                THEN FILE_TYPE_MAP[file.type] ELSE NoFileType
      ext == ToLowerCase(SplitPop(file.name, "."))
  IN IF byMime # NoFileType THEN byMime
     ELSE IF ext = <<"p","d","f">> THEN <<"p","d","f">>
     ELSE IF ext = <<"d","o","c","x">> THEN <<"d","o","c","x">>
     ELSE IF ext = <<"t","x","t">> THEN <<"t","x","t">>
     ELSE NoFileType

\* if (!ragId || !file)
UploadFormInvalid(ragId, file) == ~Truthy(ragId) \/ ~Truthy(file)

UnsupportedType(file) ==
  Json([success |-> FALSE,
        error |-> <<"Unsupported file type: ",
                    IF file.type # "" THEN file.type ELSE "unknown",
                    ". Supported: PDF, DOCX, TXT">>], 400)

\* ------------------------------------------------- upload: parser fallback
\* variant: a fourth attempt, with the first parser again
parsers_four == <<"auto", "llmsherpa", "none", "auto">>

parsers == <<"auto", "llmsherpa", "none">>

\* buildTrainForm(parser)
buildTrainForm(parser, file) ==
  [file |-> file, data_parser |-> parser, chunk_size |-> "2000",
   chunk_overlap |-> "200", extra_info |-> "{}"]

\* bodies of a 200 from the train endpoint
TrainBodies ==
  {SyntaxErr, Null, JsNumber(0), JsObject(<<>>),
   JsObject([document_count |-> JsNumber(3)]),
   JsObject([chunks |-> JsNumber(2)])}

TrainOutcomes ==
  Rejections \cup FailResponses \cup {Resolved(200, "body", j) : j \in TrainBodies}

\* one pass of the loop body after its fetch settled with o:
\* does the loop `break`?
TrainBreaks(o) == o.t = "resolved" /\ Ok(o) /\ o.json # SyntaxErr

\* trainData after the pass
TrainDataAfter(o, old) == IF TrainBreaks(o) THEN o.json ELSE old

\* variant: only the first error is kept
TrainErrorAfter_keepFirst(o, old) ==
  IF old # "" THEN old
  ELSE IF o.t = "rejected" THEN o.message
  ELSE IF Ok(o) THEN (IF o.json = SyntaxErr THEN SyntaxMessage ELSE old)
  ELSE o.text

\* lastTrainError after the pass
TrainErrorAfter(o, old) ==
  IF o.t = "rejected" THEN o.message
  ELSE IF Ok(o) THEN (IF o.json = SyntaxErr THEN SyntaxMessage ELSE old)
  ELSE o.text

\* the envelope after the loop when `!trainData`
TrainFailure(details) ==
  Json([success |-> FALSE,
        error |-> <<"Failed to train document after trying multiple parsers">>,
        details |-> details], 500)

\* the envelope after the loop otherwise
TrainSuccess(data, file, fileType, ragId) ==
  Json([success |-> TRUE,
        message |-> "Document uploaded and trained successfully",
        fileName |-> file.name, fileType |-> fileType,
        documentCount |-> Or(Or(Prop(data, "document_count"), Prop(data, "chunks")),
                             JsNumber(1)),
        ragId |-> ragId], 200)

\* ----------------------------------------------------------------- POST
KeyNotConfigured ==
  Json([success |-> FALSE, error |-> <<"LYZR_API_KEY not configured on server">>], 500)

\* POST with a JSON body: list documents
POST_list ==
  /\ Idle
  /\ \E body \in ListRequestBodies :
       /\ request' = [method |-> "POST", contentType |-> "application/json", body |-> body]
       /\ FreshLocals
       /\ IF KeyMissing(LYZR_API_KEY)
          THEN calls' = <<>> /\ Return(KeyNotConfigured)
          ELSE IF body = SyntaxErr
          THEN calls' = <<>> /\ Return(CatchAll(SyntaxMessage))
          ELSE IF DestructureThrows(body)
          THEN calls' = <<>> /\ Return(CatchAll(TypeMessage))
          ELSE IF ListBodyInvalid(Prop(body, "ragId"))
          THEN /\ calls' = <<>>
               /\ Return(Json([success |-> FALSE, error |-> <<"ragId is required">>], 400))
          ELSE /\ calls' = <<Call("list", Prop(body, "ragId"), Undefined)>>
               /\ response' = NoResponse
               /\ pc' = "POST_list_fetch"
  /\ UNCHANGED <<LYZR_API_KEY, pageVars>>

\* variant: the request headers echoed into the failure details
ListFailure_leak(o) ==
  Json([success |-> FALSE,
        error |-> <<"Failed to get documents: ", ToString(o.status)>>,
        details |-> LYZR_API_KEY], o.status)

ListFailure(o) ==
  Json([success |-> FALSE,
        error |-> <<"Failed to get documents: ", ToString(o.status)>>,
        details |-> o.text], o.status)

\* the listing fetch of POST settles
POST_list_fetch ==
  /\ pc = "POST_list_fetch"
  /\ \E o \in ListOutcomes :
       /\ calls' = Settle(o)
       /\ IF o.t = "rejected" THEN Return(CatchAll(o.message))
          ELSE IF Ok(o)
          THEN IF o.json = SyntaxErr THEN Return(CatchAll(SyntaxMessage))
               ELSE IF FilePathsThrows(o.json) THEN Return(CatchAll(TypeMessage))
               ELSE Return(ListSuccess(o.json, Prop(request.body, "ragId")))
          ELSE Return(ListFailure(o))
  /\ KeepLocals
  /\ UNCHANGED <<LYZR_API_KEY, pageVars, request>>

\* POST with a multipart form: upload and train, up to the first attempt
\* (`await file.arrayBuffer()` reads bytes already in memory and is not a step)
POST_upload ==
  /\ Idle
  /\ \E form \in Forms :
       /\ request' = [method |-> "POST", contentType |-> "multipart/form-data", form |-> form]
       /\ IF KeyMissing(LYZR_API_KEY)
          THEN calls' = <<>> /\ Return(KeyNotConfigured) /\ FreshLocals
          ELSE IF UploadFormInvalid(form.ragId, form.file)
          THEN /\ calls' = <<>>
               /\ FreshLocals
               /\ Return(Json([success |-> FALSE,
                               error |-> <<"ragId and file are required">>], 400))
          ELSE IF ResolveFileType(form.file) = NoFileType
          THEN calls' = <<>> /\ Return(UnsupportedType(form.file)) /\ FreshLocals
          ELSE /\ calls' = <<Call("train", form.ragId,
                                  buildTrainForm(parsers[1], form.file))
                               @@ [fileType |-> ResolveFileType(form.file)]>>
               /\ trainData' = Null
               /\ lastTrainError' = ""
               /\ parserIdx' = 1
               /\ deleteResponse' = Pending
               /\ fullPaths' = <<>>
               /\ response' = NoResponse
               /\ pc' = "POST_train_fetch"
  /\ UNCHANGED <<LYZR_API_KEY, pageVars>>

\* the fetch of the current parser attempt settles; the loop goes on to the
\* next parser, or ends and the handler returns
POST_train_fetch ==
  /\ pc = "POST_train_fetch"
  /\ \E o \in TrainOutcomes :
       LET data == TrainDataAfter(o, trainData)
           err == TrainErrorAfter(o, lastTrainError)
           file == request.form.file
           fileType == ResolveFileType(file)
       IN /\ trainData' = data
          /\ lastTrainError' = err
          /\ IF ~TrainBreaks(o) /\ parserIdx < Len(parsers)
             THEN /\ calls' = Append(Settle(o),
                                     Call("train", request.form.ragId,
                                          buildTrainForm(parsers[parserIdx + 1], file))
                                       @@ [fileType |-> fileType])
                  /\ parserIdx' = parserIdx + 1
                  /\ UNCHANGED <<response, pc>>
             ELSE /\ calls' = Settle(o)
                  /\ UNCHANGED parserIdx
                  /\ IF ~Truthy(data)
                     THEN Return(TrainFailure(err))
                     ELSE Return(TrainSuccess(data, file, fileType, request.form.ragId))
  /\ UNCHANGED <<LYZR_API_KEY, pageVars, request, deleteResponse, fullPaths>>

\* ---------------------------------------------------------------- PATCH
CrawlRequestBodies ==
  {SyntaxErr, Null}
    \cup {JsObject([ragId |-> r, url |-> u]) :
            r \in RagIds, u \in {Undefined, JsString(<<>>), JsString(<<"u">>)}}

\* if (!ragId || !url)
CrawlBodyInvalid(ragId, url) == ~Truthy(ragId) \/ ~Truthy(url)

CrawlOutcomes ==
  Rejections \cup FailResponses
    \cup {Resolved(200, "body", j) : j \in {SyntaxErr, JsObject(<<>>)}}

CrawlFailure(o) ==
  Json([success |-> FALSE,
        error |-> <<"Failed to crawl website: ", ToString(o.status)>>,
        details |-> o.text], o.status)

PATCH ==
  /\ Idle
  /\ \E body \in CrawlRequestBodies :
       /\ request' = [method |-> "PATCH", body |-> body]
       /\ FreshLocals
       /\ IF KeyMissing(LYZR_API_KEY)
          THEN calls' = <<>> /\ Return(KeyNotConfigured)
          ELSE IF body = SyntaxErr
          THEN calls' = <<>> /\ Return(CatchAll(SyntaxMessage))
          ELSE IF DestructureThrows(body)
          THEN calls' = <<>> /\ Return(CatchAll(TypeMessage))
          ELSE IF CrawlBodyInvalid(Prop(body, "ragId"), Prop(body, "url"))
          THEN /\ calls' = <<>>
               /\ Return(Json([success |-> FALSE,
                               error |-> <<"ragId and url are required">>], 400))
          ELSE /\ calls' = <<Call("crawl", Prop(body, "ragId"),
                                  [url |-> Prop(body, "url"), rag_id |-> Prop(body, "ragId")])>>
               /\ response' = NoResponse
               /\ pc' = "PATCH_fetch"
  /\ UNCHANGED <<LYZR_API_KEY, pageVars>>

\* the crawl fetch settles
PATCH_fetch ==
  /\ pc = "PATCH_fetch"
  /\ \E o \in CrawlOutcomes :
       /\ calls' = Settle(o)
       /\ IF o.t = "rejected" THEN Return(CatchAll(o.message))
          ELSE IF ~Ok(o) THEN Return(CrawlFailure(o))
          ELSE Return(Json([success |-> TRUE,
                            message |-> "Website crawl started successfully. Content will be available shortly.",
                            url |-> Prop(request.body, "url"),
                            ragId |-> Prop(request.body, "ragId")], 200))
  /\ KeepLocals
  /\ UNCHANGED <<LYZR_API_KEY, pageVars, request>>

\* --------------------------------------------------------------- DELETE
\* names a client sends: bare names and full paths, mixed
DocumentNames == { <<"a">>, <<"z">>, <<"x","/","a">>, <<>> }

NameArray(l) == JsArray([i \in 1..Len(l) |-> JsString(l[i])])

DeleteRequestBodies ==
  {SyntaxErr, Null}
    \cup {JsObject([ragId |-> r, documentNames |-> d]) :
            r \in RagIds,
            d \in {Undefined, JsString(<<"a">>)}
                    \cup {NameArray(l) : l \in SeqsUpTo(DocumentNames, MaxNames)}}

\* if (!ragId || !documentNames || !Array.isArray(documentNames))
DeleteBodyInvalid(ragId, documentNames) ==
  ~Truthy(ragId) \/ ~Truthy(documentNames) \/ documentNames.t # "array"

DeleteOutcomes ==
  Rejections \cup FailResponses \cup {Resolved(200, "body", JsObject(<<>>))}

\* allPaths.find((p) => p.endsWith(`/${name}`) || p === name)
RECURSIVE Find(_, _)
Find(allPaths, name) ==
  IF allPaths = <<>> THEN Undefined
  ELSE IF EndsWith(Head(allPaths).s, <<"/">> \o name) \/ Head(allPaths).s = name
  THEN Head(allPaths)
  ELSE Find(Tail(allPaths), name)

\* variant: full paths are looked up in the listing like bare names
ResolveName_alwaysFind(name, allPaths) == Find(allPaths, name.s)

\* the callback of documentNames.map(...)
ResolveName(name, allPaths) ==
  IF Includes(name.s, "/") THEN name ELSE Find(allPaths, name.s)

\* .filter(Boolean)
RECURSIVE FilterBoolean(_)
FilterBoolean(values) ==
  IF values = <<>> THEN <<>>
  ELSE IF Truthy(Head(values)) THEN <<Head(values)>> \o FilterBoolean(Tail(values))
  ELSE FilterBoolean(Tail(values))

\* const fullPaths = documentNames.map(...).filter(Boolean)
ResolvePaths(documentNames, allPaths) ==
  FilterBoolean([i \in 1..Len(documentNames) |-> ResolveName(documentNames[i], allPaths)])

DeleteSuccess(count, ragId) ==
  Json([success |-> TRUE, message |-> "Documents deleted successfully",
        deletedCount |-> count, ragId |-> ragId], 200)

\* variant: the retry's failure reported with the first attempt's data
DeleteRetryFailure_first(resp) ==
  Json([success |-> FALSE,
        error |-> <<"Failed to delete documents: ", ToString(deleteResponse.status)>>,
        details |-> deleteResponse.text], deleteResponse.status)

\* the envelope of the retry's failure (retryResponse, retryErrorText)
DeleteRetryFailure(resp) ==
  Json([success |-> FALSE,
        error |-> <<"Failed to delete documents: ", ToString(resp.status)>>,
        details |-> resp.text], resp.status)

\* variant: the first failure reported with a fixed status
DeleteFirstFailure_generic(resp) ==
  Json([success |-> FALSE,
        error |-> <<"Failed to delete documents: ", ToString(resp.status)>>,
        details |-> resp.text], 500)

\* the envelope at the end of the handler (response, errorText)
DeleteFirstFailure(resp) ==
  Json([success |-> FALSE,
        error |-> <<"Failed to delete documents: ", ToString(resp.status)>>,
        details |-> resp.text], resp.status)

\* variant: the listing is fetched whatever the first attempt returned
FirstDeleteSucceeded_never(resp) == FALSE

\* if (response.ok) return success; otherwise go on to the listing
FirstDeleteSucceeded(resp) == Ok(resp)

\* if (fullPaths.length > 0)
ShouldRetry(paths) == Len(paths) > 0

DELETE ==
  /\ Idle
  /\ \E body \in DeleteRequestBodies :
       /\ request' = [method |-> "DELETE", body |-> body]
       /\ FreshLocals
       /\ IF KeyMissing(LYZR_API_KEY)
          THEN calls' = <<>> /\ Return(KeyNotConfigured)
          ELSE IF body = SyntaxErr
          THEN calls' = <<>> /\ Return(CatchAll(SyntaxMessage))
          ELSE IF DestructureThrows(body)
          THEN calls' = <<>> /\ Return(CatchAll(TypeMessage))
          ELSE IF DeleteBodyInvalid(Prop(body, "ragId"), Prop(body, "documentNames"))
          THEN /\ calls' = <<>>
               /\ Return(Json([success |-> FALSE,
                               error |-> <<"ragId and documentNames array are required">>],
                              400))
          ELSE /\ calls' = <<Call("delete", Prop(body, "ragId"),
                                  Prop(body, "documentNames").a)>>
               /\ response' = NoResponse
               /\ pc' = "DELETE_fetch"
  /\ UNCHANGED <<LYZR_API_KEY, pageVars>>

\* the first delete attempt settles
DELETE_fetch ==
  /\ pc = "DELETE_fetch"
  /\ \E o \in DeleteOutcomes :
       LET ragId == Prop(request.body, "ragId")
           documentNames == Prop(request.body, "documentNames").a
       IN IF o.t = "rejected"
          THEN calls' = Settle(o) /\ Return(CatchAll(o.message)) /\ KeepLocals
          ELSE IF FirstDeleteSucceeded(o)
          THEN /\ calls' = Settle(o)
               /\ Return(DeleteSuccess(Len(documentNames), ragId))
               /\ KeepLocals
          ELSE /\ calls' = Append(Settle(o), Call("list", ragId, Undefined))
               /\ deleteResponse' = o
               /\ pc' = "DELETE_list_fetch"
               /\ UNCHANGED <<response, trainData, lastTrainError, parserIdx, fullPaths>>
  /\ UNCHANGED <<LYZR_API_KEY, pageVars, request>>

\* the listing fetch of DELETE settles
DELETE_list_fetch ==
  /\ pc = "DELETE_list_fetch"
  /\ \E o \in ListOutcomes :
       LET ragId == Prop(request.body, "ragId")
           documentNames == Prop(request.body, "documentNames").a
           resolved == ResolvePaths(documentNames, FilePaths(o.json).a)
       IN IF o.t = "rejected"
          THEN calls' = Settle(o) /\ Return(CatchAll(o.message)) /\ UNCHANGED fullPaths
          ELSE IF ~Ok(o)
          THEN /\ calls' = Settle(o)
               /\ Return(DeleteFirstFailure(deleteResponse))
               /\ UNCHANGED fullPaths
          ELSE IF o.json = SyntaxErr
          THEN calls' = Settle(o) /\ Return(CatchAll(SyntaxMessage)) /\ UNCHANGED fullPaths
          ELSE IF FilePathsThrows(o.json)
          THEN calls' = Settle(o) /\ Return(CatchAll(TypeMessage)) /\ UNCHANGED fullPaths
          ELSE IF ShouldRetry(resolved)
          THEN /\ calls' = Append(Settle(o), Call("delete", ragId, resolved))
               /\ fullPaths' = resolved
               /\ pc' = "DELETE_retry_fetch"
               /\ UNCHANGED response
          ELSE /\ calls' = Settle(o)
               /\ fullPaths' = resolved
               /\ Return(DeleteFirstFailure(deleteResponse))
  /\ UNCHANGED <<LYZR_API_KEY, pageVars, request, trainData, lastTrainError, parserIdx, deleteResponse>>

\* the retry with the resolved paths settles
DELETE_retry_fetch ==
  /\ pc = "DELETE_retry_fetch"
  /\ \E o \in DeleteOutcomes :
       /\ calls' = Settle(o)
       /\ IF o.t = "rejected" THEN Return(CatchAll(o.message))
          ELSE IF Ok(o)
          THEN Return(DeleteSuccess(Len(fullPaths), Prop(request.body, "ragId")))
          ELSE Return(DeleteRetryFailure(o))
  /\ KeepLocals
  /\ UNCHANGED <<LYZR_API_KEY, pageVars, request>>

\* ------------------------------------------------------- end of a request
\* the response has been sent; the handler's frame is gone and the route
\* waits for the next request
Finish ==
  /\ pc = "done"
  /\ pc' = "idle"
  /\ request' = NoRequest
  /\ calls' = <<>>
  /\ response' = NoResponse
  /\ FreshLocals
  /\ UNCHANGED <<LYZR_API_KEY, pageVars>>

Next ==
  \/ GET
  \/ GET_fetch
  \/ POST_list
  \/ POST_list_fetch
  \/ POST_upload
  \/ POST_train_fetch
  \/ PATCH
  \/ PATCH_fetch
  \/ DELETE
  \/ DELETE_fetch
  \/ DELETE_list_fetch
  \/ DELETE_retry_fetch
  \/ Finish

Spec == Init /\ [][Next]_vars

\* the awaited upstream call of the handler returns (at most one is awaited
\* at a time): it resolves, or rejects as a failed fetch does
Returns ==
  \/ GET_fetch \/ POST_list_fetch \/ POST_train_fetch \/ PATCH_fetch
  \/ DELETE_fetch \/ DELETE_list_fetch \/ DELETE_retry_fetch

\* the key is read-only and only ever copied into the x-api-key header: one
\* configured key and the missing key cover the handlers' branches
LiveInit == Init /\ LYZR_API_KEY \in {"", "key-A"}

SpecLive == LiveInit /\ [][Next]_vars /\ WF_vars(Returns)

\* ===================================================================
\* Properties
\* ===================================================================
Responded == pc = "done"
IsUpload == request.method = "POST" /\ request.contentType = "multipart/form-data"
IsPostList == request.method = "POST" /\ request.contentType = "application/json"
IsDelete == request.method = "DELETE"

\* an attempt that ended in failure: non-success status or network error
AttemptFailed(o) == o.t = "rejected" \/ (o.t = "resolved" /\ ~Ok(o))
\* an attempt that returned a success status
AttemptSucceeded(o) == o.t = "resolved" /\ Ok(o)
\* the error text of a failed attempt
AttemptErrorText(o) == IF o.t = "rejected" THEN o.message ELSE o.text

\* C1: in the upload route the train attempts are issued one at a time in
\* the order auto, llmsherpa, none; attempt k+1 is started only after
\* attempt k ended in failure (non-success status or network error); no
\* attempt follows the first attempt that returned success, so
\* (fail, fail, succeed) gives exactly three calls, the third's decoded
\* body being the reported result, and (succeed, *, *) exactly one call.
C1_AttemptsStopAtFirstSuccess ==
  IsUpload =>
    /\ Len(calls) <= Len(parsers)
    /\ \A k \in 1..Len(calls) :
         /\ calls[k].endpoint = "train"
         /\ calls[k].body.data_parser = parsers[k]
         /\ k < Len(calls) => AttemptFailed(calls[k].result)
    /\ (Responded /\ calls # <<>> /\ AttemptSucceeded(calls[1].result))
         => Len(calls) = 1
    /\ (Responded /\ Len(calls) = 3 /\ AttemptSucceeded(calls[3].result)
          /\ calls[3].result.json # SyntaxErr)
         => trainData = calls[3].result.json

MatchesName(p, name) == EndsWith(p, <<"/">> \o name) \/ p = name
HasMatch(listing, name) == \E i \in 1..Len(listing) : MatchesName(listing[i], name)
FirstMatch(listing, name) ==
  listing[CHOOSE i \in 1..Len(listing) :
            /\ MatchesName(listing[i], name)
            /\ \A j \in 1..(i - 1) : ~MatchesName(listing[j], name)]

RECURSIVE ExpectedBatch(_, _)
ExpectedBatch(names, listing) ==
  IF names = <<>> THEN <<>>
  ELSE LET name == Head(names)
           rest == ExpectedBatch(Tail(names), listing)
       IN IF Includes(name, "/") THEN <<name>> \o rest
          ELSE IF HasMatch(listing, name) THEN <<FirstMatch(listing, name)>> \o rest
          ELSE rest

Strings(values) == [i \in 1..Len(values) |-> values[i].s]

\* the names of the delete request and the listing the upstream returned
RequestNames == Strings(Prop(request.body, "documentNames").a)
ListingDecoded ==
  /\ Len(calls) >= 2
  /\ calls[2].result.t = "resolved" /\ Ok(calls[2].result)
  /\ calls[2].result.json \notin {SyntaxErr, Null}
ListingPaths ==
  LET j == calls[2].result.json
  IN IF j.t = "array" THEN Strings(j.a)
     ELSE IF "documents" \in DOMAIN j.f THEN Strings(j.f.documents.a)
     ELSE IF "data" \in DOMAIN j.f THEN Strings(j.f.data.a)
     ELSE <<>>

\* C3: the batch sent on the retry is computed from the input names in
\* input order: a name containing '/' is kept unchanged (matched or not),
\* any other name is replaced by the first listing entry that ends with
\* '/<name>' or equals '<name>', and a name with no such entry is dropped.
C3_RetryBatch ==
  (IsDelete /\ ListingDecoded)
    => /\ Strings(fullPaths) = ExpectedBatch(RequestNames, ListingPaths)
       /\ Len(calls) = 3 => Strings(calls[3].body) = ExpectedBatch(RequestNames, ListingPaths)

\* a retry whose batch holds an unmatched full path kept as given, the
\* first of two matching entries for a bare name, and drops a third name
C3_Witness ==
  /\ IsDelete /\ ListingDecoded /\ Len(calls) = 3
  /\ RequestNames = << <<"x","/","a">>, <<"a">> >>
  /\ ListingPaths = << <<"t","/","a">>, <<"s","/","a">> >>
  /\ Strings(calls[3].body) = << <<"x","/","a">>, <<"t","/","a">> >>

\* step 2 ran to its end and produced nothing to retry with
Step2NoPaths ==
  /\ Len(calls) >= 2
  /\ calls[2].result.t = "resolved"
  /\ \/ ~Ok(calls[2].result)
     \/ ListingDecoded /\ ExpectedBatch(RequestNames, ListingPaths) = <<>>

\* C4: when the first delete attempt fails and step 2 yields no resolved
\* paths, the response is the original step-1 failure: a failure envelope
\* with the first attempt's HTTP status and error text.
C4_ReportsFirstFailure ==
  (IsDelete /\ Responded /\ Step2NoPaths)
    => /\ Len(calls) = 2
       /\ response.body.success = FALSE
       /\ response.status = calls[1].result.status
       /\ response.body.details = calls[1].result.text

\* the listing succeeded, held entries, none of them matched
C4_Witness ==
  /\ IsDelete /\ Responded /\ Step2NoPaths
  /\ ListingDecoded /\ ListingPaths # <<>> /\ RequestNames # <<>>
  /\ calls[1].result.status = 503

\* C5: whenever the retry with resolved paths is issued, the final response
\* is determined by the retry alone: success with deletedCount = number of
\* resolved paths if it succeeded, otherwise a failure envelope carrying
\* the retry's HTTP status and error text, not the first attempt's.
C5_RetryDecides ==
  (IsDelete /\ Responded /\ Len(calls) = 3)
    => LET retry == calls[3].result
       IN /\ AttemptSucceeded(retry)
               => /\ response.status = 200
                  /\ response.body.success = TRUE
                  /\ response.body.deletedCount = Len(calls[3].body)
          /\ (retry.t = "resolved" /\ ~Ok(retry))
               => /\ response.body.success = FALSE
                  /\ response.status = retry.status
                  /\ response.body.details = retry.text
          /\ retry.t = "rejected"
               => /\ response.body.success = FALSE
                  /\ response.body.error = <<retry.message>>

\* a failed retry whose status and text both differ from the first attempt's
C5_Witness ==
  /\ IsDelete /\ Responded /\ Len(calls) = 3
  /\ calls[3].result.t = "resolved" /\ ~Ok(calls[3].result)
  /\ calls[3].result.status # calls[1].result.status
  /\ calls[3].result.text # calls[1].result.text
  /\ Len(calls[3].body) # Len(RequestNames)

\* C6: in the delete route the upstream calls are strictly ordered and
\* conditional: the listing is fetched only after the first delete returned
\* a failure, the retry only after the listing returned and paths were
\* resolved; when the first attempt succeeds the route responds with
\* success and makes no further call.
C6_DeleteCallOrder ==
  IsDelete =>
    /\ Len(calls) <= 3
    /\ \A k \in 1..Len(calls) : k < Len(calls) => calls[k].result # Pending
    /\ Len(calls) >= 1
         => calls[1].endpoint = "delete" /\ Strings(calls[1].body) = RequestNames
    /\ Len(calls) >= 2
         => /\ calls[1].result.t = "resolved" /\ ~Ok(calls[1].result)
            /\ calls[2].endpoint = "list"
    /\ Len(calls) >= 3
         => /\ ListingDecoded
            /\ calls[3].endpoint = "delete"
            /\ calls[3].body = fullPaths /\ fullPaths # <<>>
    /\ (Len(calls) >= 1 /\ AttemptSucceeded(calls[1].result))
         => /\ Len(calls) = 1 /\ Responded
            /\ response.status = 200 /\ response.body.success = TRUE

\* the retry is in flight, after a failed delete and a returned listing
C6_Witness ==
  /\ IsDelete /\ pc = "DELETE_retry_fetch"
  /\ Len(calls) = 3 /\ calls[3].result = Pending

\* C7: whenever an upstream list or crawl call made by a route returns a
\* non-success HTTP status, the route responds with a failure envelope
\* whose HTTP status is the upstream status and whose details is the
\* upstream's raw error text; for the GET listing, the POST listing and
\* the crawl route.
C7_UpstreamFailureMirrored ==
  (Responded /\ request.method \in {"GET", "POST", "PATCH"} /\ Len(calls) = 1
     /\ calls[1].endpoint \in {"list", "crawl"}
     /\ calls[1].result.t = "resolved" /\ ~Ok(calls[1].result))
    => /\ response.body.success = FALSE
       /\ response.status = calls[1].result.status
       /\ "details" \in DOMAIN response.body
       /\ response.body.details = calls[1].result.text

\* C8: when the secret API key is unset, every handler rejects every
\* request with a failure envelope and HTTP status 500 and makes no
\* upstream call, whatever the request contains.
C8_NoKeyNoCall ==
  (LYZR_API_KEY = "" /\ request.method # "none")
    => /\ Responded
       /\ calls = <<>>
       /\ response.status = 500
       /\ response.body.success = FALSE

\* a well-formed delete request rejected for the missing key
C8_Witness ==
  /\ LYZR_API_KEY = "" /\ IsDelete /\ Responded
  /\ request.body.t = "object"
  /\ Truthy(Prop(request.body, "ragId"))
  /\ Prop(request.body, "documentNames").t = "array"
  /\ response.status = 500

\* a value that is absent or empty
Missing(v) == v.t \in {"undefined", "null"} \/ (v.t = "string" /\ v.s = <<>>)

\* the request decoded, and a required field of it is missing or malformed
FieldInvalid ==
  \/ /\ IsPostList /\ request.body.t = "object"
     /\ Missing(Prop(request.body, "ragId"))
  \/ /\ IsUpload
     /\ Missing(request.form.ragId) \/ request.form.file = Null
  \/ /\ request.method = "PATCH" /\ request.body.t = "object"
     /\ Missing(Prop(request.body, "ragId")) \/ Missing(Prop(request.body, "url"))
  \/ /\ IsDelete /\ request.body.t = "object"
     /\ \/ Missing(Prop(request.body, "ragId"))
        \/ Prop(request.body, "documentNames").t # "array"

\* C9: when a required request field is missing or malformed (no ragId for
\* list; no ragId or no file for upload; no ragId or no url for crawl; no
\* ragId, or documentNames absent or not an array, for delete), the route
\* responds at once with a failure envelope and HTTP status 400 and makes
\* no upstream call.
C9_ValidationRejects ==
  (LYZR_API_KEY # "" /\ FieldInvalid)
    => /\ Responded
       /\ calls = <<>>
       /\ response.status = 400
       /\ response.body.success = FALSE

\* a delete request whose documentNames is present but not an array
C9_Witness ==
  /\ LYZR_API_KEY # "" /\ IsDelete /\ Responded
  /\ request.body.t = "object"
  /\ Truthy(Prop(request.body, "ragId"))
  /\ Prop(request.body, "documentNames").t = "string"
  /\ response.status = 400

\* the type a media type maps to, and the type a file name's extension (the
\* lower-cased text after its last '.') maps to; <<>> when it maps to none
SupportedTypes == { <<"p","d","f">>, <<"d","o","c","x">>, <<"t","x","t">> }
TypeOfMedia(m) ==
  CASE m = "application/pdf" -> <<"p","d","f">>
    [] m = "text/plain" -> <<"t","x","t">>
    [] m = "application/vnd.openxmlformats-officedocument.wordprocessingml.document"
         -> <<"d","o","c","x">>
    [] OTHER -> <<>>
TypeOfExtension(name) ==
  LET dots == {i \in 1..Len(name) : name[i] = "."}
      from == IF dots = {} THEN 1 ELSE (CHOOSE i \in dots : \A j \in dots : j <= i) + 1
      ext == [i \in 1..(Len(name) - from + 1) |-> LowerChar(name[from + i - 1])]
  IN IF ext \in SupportedTypes THEN ext ELSE <<>>

\* the upload passed the key check and the required-field check
UploadValidated ==
  /\ IsUpload /\ LYZR_API_KEY # ""
  /\ ~Missing(request.form.ragId) /\ request.form.file # Null

KeyFree(body, key) ==
  /\ "error" \in DOMAIN body => \A i \in 1..Len(body.error) : body.error[i] # key
  /\ "details" \in DOMAIN body => body.details # key
  /\ "message" \in DOMAIN body => body.message # key

\* C11: the secret API key never reaches the browser: the key value flows
\* only into the x-api-key header of the upstream calls and into no text
\* of a response envelope, so that the envelope of a request is the same
\* under either configured key.
C11_KeyOnlyInHeader ==
  /\ \A k \in 1..Len(calls) : calls[k].xApiKey = LYZR_API_KEY
  /\ (Responded /\ LYZR_API_KEY # "") => KeyFree(response.body, LYZR_API_KEY)

\* an upstream failure is reported under the second key, which went out in
\* the header of the call
C11_Witness ==
  /\ Responded /\ LYZR_API_KEY = "key-B"
  /\ IsPostList /\ Len(calls) = 1 /\ calls[1].xApiKey = "key-B"
  /\ "details" \in DOMAIN response.body

\* ======================================================================
\* The page: the response normalizer (src/app/page.tsx)
\* ======================================================================

\* longest array held by a candidate's sources_consulted
MaxArray == 2

\* ------------------------------------------------------ texts of the page
T_Hi == <<"H", "i">>
T_M == <<"M">>
T_T == <<"T">>
T_R == <<"R">>
T_compliant == <<"c", "o", "m", "p", "l", "i", "a", "n", "t">>
T_medium == <<"m", "e", "d", "i", "u", "m">>
T_FLAGGED == <<"F", "L", "A", "G", "G", "E", "D">>
T_High == <<"H", "i", "g", "h">>

\* JSON texts
\* null
J_null == <<"n", "u", "l", "l">>
\* 5
J_5 == <<"5">>
\* {}
J_empty == <<"{", "}">>
\* {x
J_bad == <<"{", "x">>
\* {"answer":"Hi"}
J_answer == <<"{", "\"", "a", "n", "s", "w", "e", "r", "\"", ":", "\"", "H",
  "i", "\"", "}">>
\* {"answer":"Hi","confidence":"HIGH"}
J_scenario == <<"{", "\"", "a", "n", "s", "w", "e", "r", "\"", ":", "\"",
  "H", "i", "\"", ",", "\"", "c", "o", "n", "f", "i", "d", "e", "n", "c",
  "e", "\"", ":", "\"", "H", "I", "G", "H", "\"", "}">>
\* {"answer":"{\"answer\":\"Hi\"}"}
J_nested == <<"{", "\"", "a", "n", "s", "w", "e", "r", "\"", ":", "\"", "{",
  "\\", "\"", "a", "n", "s", "w", "e", "r", "\\", "\"", ":", "\\", "\"",
  "H", "i", "\\", "\"", "}", "\"", "}">>
\* ["a","b"]
J_array == <<"[", "\"", "a", "\"", ",", "\"", "b", "\"", "]">>
\* [5,null]
J_mixed == <<"[", "5", ",", "n", "u", "l", "l", "]">>

\* JSON.parse(text): the decoded value, SyntaxErr when the text is not JSON
JSONparse(text) ==
  CASE text = J_null -> Null
    [] text = J_5 -> JsNumber(5)
    [] text = J_empty -> JsObject(<<>>)
    [] text = J_answer -> JsObject([answer |-> JsString(T_Hi)])
    [] text = J_scenario ->
         JsObject([answer |-> JsString(T_Hi),
                   confidence |-> JsString(<<"H", "I", "G", "H">>)])
    [] text = J_nested -> JsObject([answer |-> JsString(J_answer)])
    [] text = J_array -> JsArray(<<JsString(<<"a">>), JsString(<<"b">>)>>)
    [] text = J_mixed -> JsArray(<<JsNumber(5), Null>>)
    [] OTHER -> SyntaxErr

\* String(v)
String(v) ==
  CASE v.t = "string" -> v.s
    [] v.t = "number" -> IF v.n = 5 THEN <<"5">> ELSE IF v.n = 7 THEN <<"7">> ELSE <<"0">>
    [] v.t = "null" -> <<"n", "u", "l", "l">>
    [] v.t = "undefined" -> <<"u", "n", "d", "e", "f", "i", "n", "e", "d">>
    [] v.t = "array" -> <<>>
    [] OTHER -> <<"[", "o", "b", "j", "e", "c", "t", " ", "O", "b", "j", "e", "c", "t", "]">>

\* s.startsWith(c)
StartsWith(s, c) == Len(s) > 0 /\ s[1] = c

\* { ...a, ...b }
Spread(a, b) ==
  JsObject([k \in DOMAIN a.f \cup DOMAIN b.f |->
              IF k \in DOMAIN b.f THEN b.f[k] ELSE a.f[k]])

\* typeof v === 'object' (null is ruled out before it is asked)
IsObject(v) == v.t \in {"object", "array"}

\* the nested-JSON branch of safeParseResult is taken and its parse succeeds
InnerParsed(result) ==
  /\ Prop(result, "answer").t = "string"
  /\ StartsWith(Prop(result, "answer").s, "{")
  /\ JSONparse(Prop(result, "answer").s) # SyntaxErr

safeParseResult(result) ==
  IF ~Truthy(result) THEN JsObject(<<>>)
  ELSE IF result.t = "string"
  THEN IF JSONparse(result.s) = SyntaxErr
       THEN JsObject([answer |-> result])
       ELSE JSONparse(result.s)
  ELSE IF IsObject(result)
  THEN IF InnerParsed(result)
       THEN Spread(result, JSONparse(Prop(result, "answer").s))
       ELSE result
  ELSE JsObject([answer |-> JsString(String(result))])

\* safeParseResult returns its argument itself, not a new object
ReturnsArgument(result) ==
  Truthy(result) /\ IsObject(result) /\ ~InnerParsed(result)

defaults ==
  JsObject([answer |-> JsString(<<>>),
            sources_consulted |-> JsArray(<<>>),
            compliance_status |-> JsString(T_compliant),
            domains_accessed |-> JsArray(<<>>),
            confidence |-> JsString(T_medium),
            flags |-> JsArray(<<>>)])

\* { ...defaults, answer: v }
WithAnswer(v) == JsObject([defaults.f EXCEPT !.answer = v])

\* reading a property of v raises a TypeError
PropThrows(v) == v.t \in {"null", "undefined"}

\* !data || !data.answer
NoAnswer(d) == ~Truthy(d) \/ ~Truthy(Prop(d, "answer"))

\* if (responseObj.result) data = safeParseResult(responseObj.result)
ResultData(responseObj) ==
  IF Truthy(Prop(responseObj, "result"))
  THEN safeParseResult(Prop(responseObj, "result"))
  ELSE Null

\* msgParsed.answer is read of a msgParsed that is null
MessageThrows(d, responseObj) ==
  /\ NoAnswer(d)
  /\ Truthy(Prop(responseObj, "message"))
  /\ PropThrows(safeParseResult(Prop(responseObj, "message")))

\* the response.message step
MessageData(d, responseObj) ==
  LET message == Prop(responseObj, "message")
      msgParsed == safeParseResult(message)
  IN IF NoAnswer(d) /\ Truthy(message)
     THEN IF Truthy(Prop(msgParsed, "answer")) THEN msgParsed
          ELSE IF message.t = "string" /\ Len(message.s) > 0
               THEN WithAnswer(message)
               ELSE d
     ELSE d

textKeys ==
  <<"text", "response", "content", "message", "answer_text", "summary", "output">>

\* data[key] && typeof data[key] === 'string'
TextAt(d, key) == Truthy(Prop(d, key)) /\ Prop(d, key).t = "string"

\* position in textKeys at which the loop breaks, 0 when it runs to the end
FirstTextKey(d) ==
  IF \E k \in 1..Len(textKeys) : TextAt(d, textKeys[k])
  THEN CHOOSE k \in 1..Len(textKeys) :
         /\ TextAt(d, textKeys[k])
         /\ \A j \in 1..(k - 1) : ~TextAt(d, textKeys[j])
  ELSE 0

\* the loop over textKeys assigns data.answer
Adopts(d) == Truthy(d) /\ ~Truthy(Prop(d, "answer")) /\ FirstTextKey(d) # 0

\* data.answer = data[key]
Adopted(d) ==
  IF Adopts(d)
  THEN Spread(d, JsObject([answer |-> Prop(d, textKeys[FirstTextKey(d)])]))
  ELSE d

\* variant: the alternate keys probed before response.message
ResponseData_alternatesFirst(responseObj) ==
  IF Truthy(responseObj)
  THEN MessageData(Adopted(ResultData(responseObj)), responseObj)
  ELSE Null

\* Path 1: data after the block guarded by `if (responseObj)`
ResponseData(responseObj) ==
  IF Truthy(responseObj)
  THEN Adopted(MessageData(ResultData(responseObj), responseObj))
  ELSE Null

\* the object the loop assigns to is responseObj.result itself
AssignsToResult(responseObj) ==
  /\ Truthy(responseObj)
  /\ ReturnsArgument(Prop(responseObj, "result"))
  /\ Adopts(MessageData(ResultData(responseObj), responseObj))

\* the caller's object once Path 1 has run
AfterResponse(api) ==
  IF AssignsToResult(Prop(api, "response"))
  THEN JsObject([api.f EXCEPT
         !.response = JsObject([@.f EXCEPT
           !.result = Adopted(Prop(Prop(api, "response"), "result"))])])
  ELSE api

\* Path 2: top-level fields
TopLevelData(d, api) ==
  IF NoAnswer(d)
  THEN IF Truthy(Prop(api, "answer")) THEN safeParseResult(api)
       ELSE IF Truthy(Prop(api, "text")) THEN WithAnswer(Prop(api, "text"))
       ELSE IF Truthy(Prop(api, "message")) /\ Prop(api, "message").t = "string"
            THEN WithAnswer(Prop(api, "message"))
            ELSE d
  ELSE d

\* rawParsed.answer is read of a rawParsed that is null
RawThrows(d, api) ==
  /\ NoAnswer(d)
  /\ Truthy(Prop(api, "raw_response"))
  /\ PropThrows(safeParseResult(Prop(api, "raw_response")))

\* Path 3: raw_response
RawData(d, api) ==
  LET raw == Prop(api, "raw_response")
      rawParsed == safeParseResult(raw)
  IN IF NoAnswer(d) /\ Truthy(raw)
     THEN IF Truthy(Prop(rawParsed, "answer")) THEN rawParsed
          ELSE IF raw.t = "string" THEN WithAnswer(raw)
          ELSE d
     ELSE d

\* val.map(String)
MapString(a) == JsArray([i \in 1..Len(a) |-> JsString(String(a[i]))])

\* variant: a JSON array text is not decoded
safeArray_noParse(val) ==
  IF val.t = "array" THEN MapString(val.a)
  ELSE IF val.t = "string"
  THEN IF Len(val.s) > 0 THEN JsArray(<<val>>) ELSE JsArray(<<>>)
  ELSE JsArray(<<>>)

safeArray(val) ==
  IF val.t = "array" THEN MapString(val.a)
  ELSE IF val.t = "string"
  THEN IF JSONparse(val.s).t = "array" THEN MapString(JSONparse(val.s).a)
       ELSE IF Len(val.s) > 0 THEN JsArray(<<val>>) ELSE JsArray(<<>>)
  ELSE JsArray(<<>>)

\* (v || fallback).toLowerCase() is called on something that is not a string
LowerThrows(v) == Truthy(v) /\ v.t # "string"

\* variant: toLowerCase left out
Lowered_asIs(v, fallback) == Or(v, JsString(fallback))

\* (v || fallback).toLowerCase()
Lowered(v, fallback) == JsString(ToLowerCase(Or(v, JsString(fallback)).s))

\* the object literal of the return statement
Record(d) ==
  JsObject([answer |->
              Or(Prop(d, "answer"), Or(Prop(d, "text"), Or(Prop(d, "response"),
                Or(Prop(d, "content"), Or(Prop(d, "message"), JsString(<<>>)))))),
            sources_consulted |-> safeArray(Prop(d, "sources_consulted")),
            compliance_status |-> Lowered(Prop(d, "compliance_status"), T_compliant),
            domains_accessed |-> safeArray(Prop(d, "domains_accessed")),
            confidence |-> Lowered(Prop(d, "confidence"), T_medium),
            flags |-> safeArray(Prop(d, "flags"))])

RecordThrows(d) ==
  LowerThrows(Prop(d, "compliance_status")) \/ LowerThrows(Prop(d, "confidence"))

Returned(value, d, after) ==
  [outcome |-> "returned", value |-> value, data |-> d, apiResult |-> after]

Threw(after) ==
  [outcome |-> "threw", value |-> Undefined, data |-> Null, apiResult |-> after]

deepExtractResponse(api) ==
  IF ~Truthy(api) THEN Returned(defaults, Null, api)
  ELSE LET responseObj == Prop(api, "response")
           after == AfterResponse(api)
           d1 == ResponseData(responseObj)
           d2 == TopLevelData(d1, after)
           d3 == RawData(d2, after)
       IN IF Truthy(responseObj) /\ MessageThrows(ResultData(responseObj), responseObj)
          THEN Threw(api)
          ELSE IF RawThrows(d2, after) THEN Threw(after)
          ELSE IF ~Truthy(d3) THEN Returned(defaults, d3, after)
          ELSE IF RecordThrows(d3) THEN Threw(after)
          ELSE Returned(Record(d3), d3, after)

\* --------------------------------------------- the inputs of the normalizer
\* an object literal: the fields left undefined are absent
Obj(f) == JsObject([k \in {k \in DOMAIN f : f[k] # Undefined} |-> f[k]])

ResultValues ==
  {Undefined, JsNumber(5), JsObject(<<>>),
   JsString(T_Hi), JsString(J_answer), JsString(J_null), JsString(J_5),
   JsString(J_nested), JsString(J_bad),
   JsObject([answer |-> JsString(T_Hi)]),
   JsObject([answer |-> JsString(J_answer)]),
   JsObject([text |-> JsString(T_T)]),
   JsObject([text |-> JsNumber(7), summary |-> JsString(T_T)]),
   JsObject([answer |-> JsNumber(7)]),
   JsObject([text |-> JsNumber(7)])}

MessageValues ==
  {Undefined, JsNumber(5), JsString(T_M), JsString(J_null),
   JsString(J_scenario), JsObject([answer |-> JsString(T_M)])}

RawValues ==
  {Undefined, JsString(T_R), JsString(J_null), JsString(J_answer), JsObject(<<>>)}

ResponseValues ==
  {Undefined}
    \cup {Obj([result |-> r, message |-> m]) : r \in ResultValues, m \in MessageValues}

\* payloads that differ in where the answer sits
Payloads ==
  {Obj([response |-> resp, answer |-> a, text |-> t, message |-> m,
        raw_response |-> raw]) :
     resp \in ResponseValues,
     a \in {Undefined, JsString(T_Hi)},
     t \in {Undefined, JsString(T_T)},
     m \in {Undefined, JsNumber(5), JsString(T_M)},
     raw \in RawValues}

ArrayElements == {JsString(<<"a">>), JsNumber(5), Null}

ArrayInputs ==
  {Undefined, Null, JsNumber(5), JsObject(<<>>),
   JsString(<<>>), JsString(T_Hi), JsString(J_answer),
   JsString(J_array), JsString(J_mixed)}
    \cup {JsArray(a) : a \in SeqsUpTo(ArrayElements, MaxArray)}

StatusInputs ==
  {Undefined, JsNumber(5), JsString(<<>>), JsString(T_compliant), JsString(T_FLAGGED)}

ConfidenceInputs == {Undefined, JsObject(<<>>), JsString(T_High)}

\* payloads that differ in the fields of the candidate
Candidates ==
  {Obj([answer |-> JsString(T_Hi), sources_consulted |-> sc,
        compliance_status |-> cs, confidence |-> cf,
        domains_accessed |-> da, flags |-> fl]) :
     sc \in ArrayInputs, cs \in StatusInputs, cf \in ConfidenceInputs,
     da \in {Undefined, JsArray(<<JsString(<<"a">>)>>)},
     fl \in {Undefined, JsString(T_Hi)}}

ApiResults ==
  {Undefined, Null, JsNumber(0), JsNumber(5), JsString(<<>>), JsString(T_Hi),
   JsArray(<<>>)}
    \cup Payloads
    \cup {JsObject([response |-> JsObject([result |-> c])]) : c \in Candidates}

\* ------------------------------------------------------------ the caller
routeVars == <<LYZR_API_KEY, pc, request, calls, response, trainData,
               lastTrainError, parserIdx, deleteResponse, fullPaths>>

\* the route at rest
RouteIdle ==
  /\ LYZR_API_KEY = ""
  /\ pc = "idle"
  /\ request = NoRequest
  /\ calls = <<>>
  /\ response = NoResponse
  /\ trainData = Null
  /\ lastTrainError = ""
  /\ parserIdx = 0
  /\ deleteResponse = Pending
  /\ fullPaths = <<>>

NormalizerInit ==
  /\ RouteIdle /\ ChatIdle /\ MarkdownIdle /\ InlineIdle /\ KbIdle
  /\ apiResult \in ApiResults
  /\ argument = apiResult
  /\ candidate = Null
  /\ extracted = NotCalled

\* const extracted = deepExtractResponse(apiResult)
DeepExtract ==
  /\ extracted = NotCalled
  /\ LET r == deepExtractResponse(apiResult)
     IN /\ extracted' = [outcome |-> r.outcome, value |-> r.value]
        /\ candidate' = r.data
        /\ apiResult' = r.apiResult
  /\ UNCHANGED <<routeVars, chatVars, markdownVars, inlineVars, kbVars, argument>>

NormalizerNext == DeepExtract

SpecNormalizer == NormalizerInit /\ [][NormalizerNext]_vars

\* ------------------------------------------- properties of the normalizer
Called == extracted # NotCalled
NormalizerReturned == extracted.outcome = "returned"

ParsedResponseFields ==
  {"answer", "sources_consulted", "compliance_status", "domains_accessed",
   "confidence", "flags"}

IsText(v) == v.t = "string"
IsTextArray(v) == v.t = "array" /\ \A i \in 1..Len(v.a) : IsText(v.a[i])

\* a record with every field of ParsedResponse, each of its declared type
FullyPopulated(v) ==
  /\ v.t = "object"
  /\ DOMAIN v.f = ParsedResponseFields
  /\ IsText(v.f.compliance_status) /\ IsText(v.f.confidence)
  /\ IsTextArray(v.f.sources_consulted)
  /\ IsTextArray(v.f.domains_accessed)
  /\ IsTextArray(v.f.flags)

\* C12: the normalizer never throws and always returns a fully-populated
\* ParsedResponse record, whatever the input: null or absent, a primitive,
\* JSON texts (null, numbers, nested stringified objects) in
\* response.result, response.message or raw_response, and compliance_status
\* or confidence that are not strings.
C12_NeverThrows ==
  Called => NormalizerReturned /\ FullyPopulated(extracted.value)

\* a non-empty text that is not JSON
PlainText(v) == v.t = "string" /\ v.s # <<>> /\ JSONparse(v.s) = SyntaxErr
PlainOrAbsent(v) == v = Undefined \/ PlainText(v)

\* an object whose fields are plain texts or numbers
PlainObject(v) ==
  /\ v.t = "object"
  /\ \A k \in DOMAIN v.f : PlainText(v.f[k]) \/ v.f[k].t = "number"

\* a payload whose answer texts sit in the four paths as plain text
WellFormed(api) ==
  /\ api.t = "object"
  /\ DOMAIN api.f \subseteq {"response", "answer", "text", "message", "raw_response"}
  /\ \A k \in DOMAIN api.f \ {"response"} : PlainText(api.f[k])
  /\ "response" \in DOMAIN api.f =>
       /\ api.f.response.t = "object"
       /\ PlainOrAbsent(Prop(api.f.response, "message"))
       /\ LET result == Prop(api.f.response, "result")
          IN PlainOrAbsent(result) \/ PlainObject(result)

\* the text of response.result itself: the string, or the object's answer
ResultAnswerText(api) ==
  LET result == Prop(Prop(api, "response"), "result")
  IN IF PlainText(result) THEN result ELSE Prop(result, "answer")

\* the first alternate key of the response.result object that holds a text
ResultAlternateText(api) ==
  LET result == Prop(Prop(api, "response"), "result")
      holds(k) == PlainText(Prop(result, textKeys[k]))
  IN IF \E k \in 1..Len(textKeys) : holds(k)
     THEN Prop(result, textKeys[CHOOSE k \in 1..Len(textKeys) :
                         holds(k) /\ \A j \in 1..(k - 1) : ~holds(j)])
     ELSE Undefined

MessageText(api) == Prop(Prop(api, "response"), "message")

\* the first text of a sequence of optional texts, the empty text if none
RECURSIVE FirstText(_)
FirstText(texts) ==
  IF texts = <<>> THEN JsString(<<>>)
  ELSE IF Head(texts) # Undefined THEN Head(texts)
  ELSE FirstText(Tail(texts))

\* C13 (as stated): the answer is the text of the first matching path in
\* the order response.result with its alternate keys, response.message,
\* top-level answer / text / message, raw_response.
C13_StatedOrder ==
  (NormalizerReturned /\ WellFormed(argument)) =>
    extracted.value.f.answer =
      FirstText(<<ResultAnswerText(argument), ResultAlternateText(argument),
                  MessageText(argument),
                  Prop(argument, "answer"), Prop(argument, "text"),
                  Prop(argument, "message"), Prop(argument, "raw_response")>>)

\* what the response.result object holds under text, response, content or
\* message, whatever its type
ResultLeftover(api) ==
  LET result == Prop(Prop(api, "response"), "result")
      v == Or(Prop(result, "text"), Or(Prop(result, "response"),
             Or(Prop(result, "content"), Prop(result, "message"))))
  IN IF Truthy(v) THEN v ELSE Undefined

\* C13 (amended): the answer is the value of the first matching step in the
\* order response.result's own answer, response.message, the alternate keys
\* of the response.result object, top-level answer / text / message,
\* raw_response; when no step matches it is what the response.result object
\* holds under text, response, content or message, and the empty text when
\* it holds nothing there.
C13_CodeOrder ==
  (NormalizerReturned /\ WellFormed(argument)) =>
    extracted.value.f.answer =
      FirstText(<<ResultAnswerText(argument), MessageText(argument),
                  ResultAlternateText(argument),
                  Prop(argument, "answer"), Prop(argument, "text"),
                  Prop(argument, "message"), Prop(argument, "raw_response"),
                  ResultLeftover(argument)>>)

\* response.result has only an alternate key, response.message is a text:
\* the message is the answer
C13_Witness ==
  /\ NormalizerReturned
  /\ argument = JsObject([response |->
       JsObject([result |-> JsObject([text |-> JsString(T_T)]),
                 message |-> JsString(T_M)])])
  /\ extracted.value.f.answer = JsString(T_M)

\* C14: the normalizer has no side effects: after the call the input value
\* (the nested response.result object included) is what it was at the call.
C14_InputUnchanged == Called => apiResult = argument

\* the field of the chosen candidate is present: a non-empty text
Present(d, key) == Prop(d, key).t = "string" /\ Prop(d, key).s # <<>>

AllDefault ==
  JsObject([answer |-> JsString(<<>>),
            sources_consulted |-> JsArray(<<>>),
            compliance_status |-> JsString(<<"c", "o", "m", "p", "l", "i", "a", "n", "t">>),
            domains_accessed |-> JsArray(<<>>),
            confidence |-> JsString(<<"m", "e", "d", "i", "u", "m">>),
            flags |-> JsArray(<<>>)])

\* C15: in every record the normalizer returns, compliance_status and
\* confidence are the lower-cased field of the chosen candidate when it is
\* present and "compliant" / "medium" when it is absent; when no path
\* produced data the all-default record is returned.
C15_StatusAndConfidence ==
  NormalizerReturned =>
    IF ~Truthy(candidate) THEN extracted.value = AllDefault
    ELSE /\ extracted.value.f.compliance_status =
              IF Present(candidate, "compliance_status")
              THEN JsString(ToLowerCase(candidate.f.compliance_status.s))
              ELSE AllDefault.f.compliance_status
         /\ extracted.value.f.confidence =
              IF Present(candidate, "confidence")
              THEN JsString(ToLowerCase(candidate.f.confidence.s))
              ELSE AllDefault.f.confidence

\* FLAGGED comes out as flagged, the absent confidence as medium
C15_Witness ==
  /\ NormalizerReturned
  /\ Prop(candidate, "compliance_status") = JsString(T_FLAGGED)
  /\ Prop(candidate, "confidence") = Undefined
  /\ extracted.value.f.compliance_status = JsString(<<"f", "l", "a", "g", "g", "e", "d">>)
  /\ extracted.value.f.confidence = JsString(T_medium)

\* what the claim says the coercion of val is
Coerced(val, out) ==
  CASE val.t = "array" ->
         /\ Len(out.a) = Len(val.a)
         /\ \A i \in 1..Len(val.a) : out.a[i] = JsString(String(val.a[i]))
    [] val.t = "string" /\ val.s = J_array ->
         out.a = <<JsString(<<"a">>), JsString(<<"b">>)>>
    [] val.t = "string" /\ val.s = J_mixed ->
         out.a = <<JsString(<<"5">>), JsString(<<"n", "u", "l", "l">>)>>
    [] val.t = "string" /\ val.s # <<>> /\ val.s \notin {J_array, J_mixed} ->
         out.a = <<val>>
    [] OTHER -> out.a = <<>>

\* C16: the safe-array coercion maps a sequence to its stringified elements
\* (same length and order), a string holding a JSON array to that array's
\* stringified elements, any other non-empty string to the one-element
\* sequence holding it, and the empty string and every other value to the
\* empty sequence.
C16_SafeArray ==
  (NormalizerReturned /\ Truthy(candidate)) =>
    /\ Coerced(Prop(candidate, "sources_consulted"), extracted.value.f.sources_consulted)
    /\ Coerced(Prop(candidate, "domains_accessed"), extracted.value.f.domains_accessed)
    /\ Coerced(Prop(candidate, "flags"), extracted.value.f.flags)

\* a two-element sequence holding a number and null is stringified in order
C16_Witness ==
  /\ NormalizerReturned
  /\ Prop(candidate, "sources_consulted") = JsArray(<<JsNumber(5), Null>>)
  /\ extracted.value.f.sources_consulted.a =
       <<JsString(<<"5">>), JsString(<<"n", "u", "l", "l">>)>>
  /\ extracted.value.f.flags.a = <<JsString(T_Hi)>>

\* ======================================================================
\* The page: the chat controller (src/app/page.tsx)
\* ======================================================================

\* most chat exchanges of one run
MaxExchanges == 2

MANAGER_AGENT_ID == "69a00df43dc260b752bd74d9"

\* what generateId() can return
Ids == {"id-1", "id-2"}

\* what the user can type into the textarea
TypedTexts == {<<" ">>, <<" ", "q", " ">>}

\* SUGGESTED_QUERIES[0].text
SuggestedText == <<"M", "y", " ", "a", "s", "s", "i", "g", "n", "e", "d", " ", "H", "C", "P", "s">>

ViewTypes == {"chat", "history", "audit", "kb"}

\* the rows of SAMPLE_AUDIT that the export reads
SAMPLE_AUDIT ==
  <<[query |-> JsString(<<"Show me my assigned HCPs in the Northeast territory">>),
     responseStatus |-> JsString(T_compliant),
     sessionId |-> "session-sample-001"],
    [query |-> JsString(<<"What was my Q2 regional performance?">>),
     responseStatus |-> JsString(T_compliant),
     sessionId |-> "session-sample-001"],
    [query |-> JsString(<<"Show me competitor pricing for CardioMax alternatives">>),
     responseStatus |-> JsString(<<"r", "e", "d", "a", "c", "t", "e", "d">>),
     sessionId |-> "session-sample-001"]>>

\* s.trim()
RECURSIVE Trim(_)
Trim(s) ==
  IF s = <<>> THEN s
  ELSE IF Head(s) = " " THEN Trim(Tail(s))
  ELSE IF s[Len(s)] = " " THEN Trim(SubSeq(s, 1, Len(s) - 1))
  ELSE s

\* what the awaited callAIAgent can do: return a payload or throw an Error
AgentOutcomes ==
  {Resolved(200, "agent",
            JsObject([response |-> JsObject([result |-> JsString(J_scenario)])])),
   Resolved(200, "agent", JsObject([response |-> JsObject([result |-> JsObject(<<>>)])])),
   Resolved(200, "agent", JsObject([response |-> JsObject([message |-> JsString(J_null)])])),
   Rejected("Failed to fetch")}

\* what extractText(result.response) can return
ExtractedTexts == {JsString(<<"X">>)}

UnableText ==
  JsString(<<"I was unable to retrieve relevant information for your query. Please ensure knowledge base documents have been uploaded, or try rephrasing your question.">>)

\* `An error occurred while processing your query: ${errorDetail}. Please try again.`
ErrorText(errorDetail) ==
  JsString(<<"An error occurred while processing your query: ", errorDetail,
             ". Please try again.">>)

\* err instanceof Error ? err.message : 'Unknown error'
ErrorDetail(o) == IF o.t = "rejected" THEN o.message ELSE "Unknown error"

displayMessages == IF showSample THEN <<"SAMPLE_MESSAGES">> ELSE messages
displayAudit == IF showSample THEN SAMPLE_AUDIT ELSE auditLog

ChatInit ==
  /\ RouteIdle /\ NormalizerIdle /\ MarkdownIdle /\ InlineIdle /\ KbIdle
  /\ messages = <<>>
  /\ inputValue = <<>>
  /\ isLoading = FALSE
  /\ sessionId \in Ids
  /\ activeView = "chat"
  /\ auditLog = <<>>
  /\ showSample = FALSE
  /\ activeAgentId = Null
  /\ agentCalls = <<>>

offChat == <<routeVars, normalizerVars, markdownVars, inlineVars, kbVars>>

\* onChange of the textarea, which is disabled while loading or in sample mode
setInputValue ==
  /\ ~isLoading /\ ~showSample
  /\ \E text \in TypedTexts : inputValue' = text
  /\ UNCHANGED <<offChat, messages, isLoading, sessionId, activeView, auditLog,
                 showSample, activeAgentId, agentCalls>>

\* variant: a send is accepted while a call is awaited
handleSend_reentrant ==
  /\ Len(agentCalls) < MaxExchanges
  /\ \E customMessage \in {Undefined, JsString(SuggestedText)} :
       LET msg == Or(customMessage, JsString(Trim(inputValue)))
       IN IF ~Truthy(msg)
          THEN UNCHANGED <<messages, inputValue, isLoading, activeAgentId, agentCalls>>
          ELSE /\ messages' = Append(messages, [role |-> "user", content |-> msg])
               /\ inputValue' = <<>>
               /\ isLoading' = TRUE
               /\ activeAgentId' = JsString(<<MANAGER_AGENT_ID>>)
               /\ agentCalls' = Append(agentCalls,
                    [message |-> msg, agent_id |-> MANAGER_AGENT_ID,
                     session_id |-> sessionId, result |-> Pending])
  /\ UNCHANGED <<offChat, sessionId, activeView, auditLog, showSample>>

\* handleSend up to its await.  It is called without argument by the send
\* button and the Enter key of the enabled textarea, and with a suggested
\* query by a card of the welcome screen (shown while nothing is displayed).
handleSend ==
  /\ Len(agentCalls) < MaxExchanges
  /\ \E customMessage \in {Undefined, JsString(SuggestedText)} :
       /\ IF customMessage = Undefined
          THEN ~isLoading /\ ~showSample
          ELSE displayMessages = <<>> /\ ~isLoading
       /\ LET msg == Or(customMessage, JsString(Trim(inputValue)))
          IN IF ~Truthy(msg) \/ isLoading
             THEN UNCHANGED <<messages, inputValue, isLoading, activeAgentId, agentCalls>>
             ELSE /\ messages' = Append(messages, [role |-> "user", content |-> msg])
                  /\ inputValue' = <<>>
                  /\ isLoading' = TRUE
                  /\ activeAgentId' = JsString(<<MANAGER_AGENT_ID>>)
                  /\ agentCalls' = Append(agentCalls,
                       [message |-> msg, agent_id |-> MANAGER_AGENT_ID,
                        session_id |-> sessionId, result |-> Pending])
  /\ UNCHANGED <<offChat, sessionId, activeView, auditLog, showSample>>

\* the exchange whose call is awaited
Awaited == agentCalls[Len(agentCalls)]

\* variant: the catch block appends nothing
Caught_silent(errorDetail) == UNCHANGED <<messages, auditLog>>

\* the catch block
Caught(errorDetail) ==
  /\ messages' = Append(messages, [role |-> "agent", content |-> ErrorText(errorDetail)])
  /\ UNCHANGED auditLog

\* variant: the answer goes to the audit log only
Completed_auditOnly(ex, finalAnswer) ==
  /\ UNCHANGED messages
  /\ auditLog' = Append(auditLog,
       [query |-> Awaited.message,
        responseStatus |-> ex.f.compliance_status,
        domainsAccessed |-> ex.f.domains_accessed,
        confidence |-> ex.f.confidence,
        sessionId |-> Awaited.session_id,
        fullResponse |-> Or(ex.f.answer, finalAnswer),
        sourcesConsulted |-> ex.f.sources_consulted,
        flags |-> ex.f.flags])

\* the rest of the try block for a result that was extracted
Completed(ex, finalAnswer) ==
  /\ messages' = Append(messages,
       [role |-> "agent", content |-> finalAnswer,
        parsedResponse |-> [ex.f EXCEPT !.answer = finalAnswer]])
  /\ auditLog' = Append(auditLog,
       [query |-> Awaited.message,
        responseStatus |-> ex.f.compliance_status,
        domainsAccessed |-> ex.f.domains_accessed,
        confidence |-> ex.f.confidence,
        sessionId |-> Awaited.session_id,
        fullResponse |-> Or(ex.f.answer, finalAnswer),
        sourcesConsulted |-> ex.f.sources_consulted,
        flags |-> ex.f.flags])

\* handleSend from the point where the awaited call settles with outcome o
handleSend_settled ==
  /\ isLoading
  /\ \E o \in AgentOutcomes, text \in ExtractedTexts :
       /\ agentCalls' = [agentCalls EXCEPT ![Len(agentCalls)].result = o]
       /\ IF o.t # "resolved" THEN Caught(ErrorDetail(o))
          ELSE LET r == deepExtractResponse(o.json)
                   fallback == IF Truthy(Prop(o.json, "response")) THEN text
                               ELSE JsString(<<>>)
               IN IF r.outcome = "threw" THEN Caught(TypeMessage)
                  ELSE IF ~Truthy(r.value.f.answer) /\ PropThrows(o.json)
                  THEN Caught(TypeMessage)
                  ELSE Completed(r.value,
                         Or(Or(r.value.f.answer, fallback), UnableText))
  /\ isLoading' = FALSE
  /\ activeAgentId' = Null
  /\ UNCHANGED <<offChat, inputValue, sessionId, activeView, showSample>>

\* variant: a new session that also starts a new audit log
handleNewSession_clearsAudit ==
  /\ ~isLoading
  /\ messages' = <<>>
  /\ \E id \in Ids : sessionId' = id
  /\ inputValue' = <<>>
  /\ auditLog' = <<>>
  /\ UNCHANGED <<offChat, isLoading, activeView, showSample,
                 activeAgentId, agentCalls>>

\* the New Session button, disabled while loading
handleNewSession ==
  /\ ~isLoading
  /\ messages' = <<>>
  /\ \E id \in Ids : sessionId' = id
  /\ inputValue' = <<>>
  /\ UNCHANGED <<offChat, isLoading, activeView, auditLog, showSample,
                 activeAgentId, agentCalls>>

\* the Sample Data switch
setShowSample ==
  /\ showSample' = ~showSample
  /\ UNCHANGED <<offChat, messages, inputValue, isLoading, sessionId, activeView,
                 auditLog, activeAgentId, agentCalls>>

\* a navigation item
setActiveView ==
  /\ \E view \in ViewTypes \ {activeView} : activeView' = view
  /\ UNCHANGED <<offChat, messages, inputValue, isLoading, sessionId, auditLog,
                 showSample, activeAgentId, agentCalls>>

\* the Export CSV button of the audit view, disabled when nothing is listed:
\* the rows go into a downloaded blob, no state of the page is written
exportAuditCSV ==
  /\ activeView = "audit"
  /\ displayAudit # <<>>
  /\ UNCHANGED vars

ChatNext ==
  \/ setInputValue
  \/ handleSend
  \/ handleSend_settled
  \/ handleNewSession
  \/ setShowSample
  \/ setActiveView
  \/ exportAuditCSV

SpecChat == ChatInit /\ [][ChatNext]_vars

\* ---------------------------------------- properties of the chat controller
CallReturned(c) == c.result.t = "resolved"

\* C17: the audit log is append-only and holds exactly one entry for each
\* chat exchange whose agent call returned, in order, recording that
\* exchange's query text and the session id sent with the call; an exchange
\* whose agent call threw has no entry.
C17_OneEntryPerReturnedCall ==
  LET returned == SelectSeq(agentCalls, CallReturned)
  IN /\ Len(auditLog) = Len(returned)
     /\ \A k \in 1..Len(auditLog) :
          /\ auditLog[k].query = returned[k].message
          /\ auditLog[k].sessionId = returned[k].session_id

\* the step in which the awaited agent call settles
AgentSettles ==
  /\ isLoading
  /\ Len(agentCalls') = Len(agentCalls)
  /\ Awaited.result = Pending
  /\ agentCalls'[Len(agentCalls)].result # Pending

\* the call threw, or the processing of what it returned did
ExchangeThrew(c) ==
  \/ c.result.t = "rejected"
  \/ c.result.t = "resolved" /\ deepExtractResponse(c.result.json).outcome = "threw"

\* an agent-role message with the generic error text and no parsedResponse
IsErrorMessage(m) ==
  /\ DOMAIN m = {"role", "content"}
  /\ m.role = "agent"
  /\ m.content.s[1] = "An error occurred while processing your query: "
  /\ m.content.s[3] = ". Please try again."

MaxLines == 3

\* the character U+0060, which a string of this module cannot hold
Backquote == "U+0060"

\* the lines a text is made of
LineTexts ==
  {<<"#", "#", "#", "#", " ", "T">>, <<"#", "#", "#", " ", "T">>,
   <<"#", "#", " ", "T">>, <<"#", " ", "T">>,
   <<Backquote, Backquote, Backquote>>, <<"-", "-", "-">>, <<">", " ", "q">>,
   <<"-", " ", "a">>, <<"-", " ", "b">>, <<"1", ".", " ", "c">>, <<"1", ".", " ">>,
   <<>>, <<"p">>}

\* text.split('\n') of every text of at most MaxLines lines
Texts == SeqsUpTo(LineTexts, MaxLines) \ {<<>>}

\* s.startsWith(prefix)
StartsWithText(s, prefix) ==
  Len(prefix) <= Len(s) /\ SubSeq(s, 1, Len(prefix)) = prefix

\* s.slice(n)
Slice(s, n) == SubSeq(s, n + 1, Len(s))

IsSpace(c) == c \in {" ", "\t"}
IsDigit(c) == c \in {"0", "1", "2", "3", "4", "5", "6", "7", "8", "9"}

\* length of the longest prefix of s after position k whose characters satisfy
\* the class: what a greedy \s* or \d+ takes
RECURSIVE Run(_, _, _)
Run(s, k, digits) ==
  IF k < Len(s) /\ (IF digits THEN IsDigit(s[k + 1]) ELSE IsSpace(s[k + 1]))
  THEN 1 + Run(s, k + 1, digits)
  ELSE 0

\* variant: no line opens or closes a fence
IsFence_never(line) == FALSE

\* line.trim().startsWith('```')
IsFence(line) == StartsWithText(Trim(line), <<Backquote, Backquote, Backquote>>)

\* /^(-{3,}|\*{3,}|_{3,})$/.test(line.trim())
IsRule(line) ==
  LET t == Trim(line)
  IN Len(t) >= 3 /\ \E c \in {"-", "*", "_"} : \A k \in 1..Len(t) : t[k] = c

\* the header branch a line takes: <<tag, length of the marker>>, or <<>>
Header(line) ==
  IF StartsWithText(line, <<"#", "#", "#", "#", " ">>) THEN <<"h5", 5>>
  ELSE IF StartsWithText(line, <<"#", "#", "#", " ">>) THEN <<"h4", 4>>
  ELSE IF StartsWithText(line, <<"#", "#", " ">>) THEN <<"h3", 3>>
  ELSE IF StartsWithText(line, <<"#", " ">>) THEN <<"h2", 2>>
  ELSE <<>>

\* line.match(/^(\s*)([-*+])\s(.+)/): <<match[1].length, match[3]>>, or <<>>
UnorderedMatch(line) ==
  LET indent == Run(line, 0, FALSE)
  IN IF /\ Len(line) >= indent + 3
        /\ line[indent + 1] \in {"-", "*", "+"}
        /\ IsSpace(line[indent + 2])
     THEN <<indent, Slice(line, indent + 2)>>
     ELSE <<>>

\* /^\s*\d+\.\s/.test(line)
OrderedTest(line) ==
  LET indent == Run(line, 0, FALSE)
      number == Run(line, indent, TRUE)
  IN /\ number >= 1
     /\ Len(line) >= indent + number + 2
     /\ line[indent + number + 1] = "."
     /\ IsSpace(line[indent + number + 2])

\* line.match(/^(\s*)\d+\.\s(.+)/): <<match[1].length, match[2]>>, or <<>>
OrderedMatch(line) ==
  LET indent == Run(line, 0, FALSE)
      number == Run(line, indent, TRUE)
  IN IF OrderedTest(line) /\ Len(line) >= indent + number + 3
     THEN <<indent, Slice(line, indent + number + 2)>>
     ELSE <<>>

\* flushList(currentIdx): the elements after it
Flushed(currentIdx) ==
  IF Len(listItems) > 0 /\ listType # "null"
  THEN Append(elements, [kind |-> listType, key |-> currentIdx, items |-> listItems])
  ELSE elements

\* flushList(i); elements.push(<kind key={i}>{formatInline(text)}</kind>)
PushBlock(kind, key, text) ==
  /\ elements' = Append(Flushed(key), [kind |-> kind, key |-> key, text |-> text])
  /\ listItems' = <<>>
  /\ listType' = IF Len(listItems) > 0 THEN "null" ELSE listType
  /\ UNCHANGED <<inCodeBlock, codeLines>>

\* variant: a change of list type is not noticed
TypeChanges_never(type) == FALSE

\* if (listType !== type)
TypeChanges(type) == listType # type

\* a list line: flush on a change of type, then listItems.push(<li key={i}>)
PushItem(type, key, match) ==
  LET li == [key |-> key, indent |-> match[1], text |-> match[2]]
  IN /\ IF TypeChanges(type)
        THEN /\ elements' = Flushed(key)
             /\ listItems' = <<li>>
             /\ listType' = type
        ELSE /\ listItems' = Append(listItems, li)
             /\ UNCHANGED <<elements, listType>>
     /\ UNCHANGED <<inCodeBlock, codeLines>>

MarkdownInit ==
  /\ RouteIdle /\ NormalizerIdle /\ ChatIdle /\ InlineIdle /\ KbIdle
  /\ lines \in Texts
  /\ rendering = "called"
  /\ lineIndex = 0
  /\ elements = <<>>
  /\ inCodeBlock = FALSE
  /\ codeLines = <<>>
  /\ listItems = <<>>
  /\ listType = "null"

offMarkdown == <<routeVars, normalizerVars, chatVars, inlineVars, kbVars>>

\* renderMarkdown up to its for-loop: the empty text renders null
renderMarkdown ==
  /\ rendering = "called"
  /\ rendering' = IF lines = <<<<>>>> THEN "null" ELSE "loop"
  /\ UNCHANGED <<offMarkdown, lines, lineIndex, elements, inCodeBlock, codeLines,
                 listItems, listType>>

\* one iteration of the for-loop, for line i
renderMarkdown_line ==
  /\ rendering = "loop"
  /\ lineIndex < Len(lines)
  /\ LET i == lineIndex
         line == lines[i + 1]
     IN IF IsFence(line)
        THEN IF inCodeBlock
             THEN /\ elements' = Append(elements, [kind |-> "pre", key |-> i, code |-> codeLines])
                  /\ codeLines' = <<>>
                  /\ inCodeBlock' = FALSE
                  /\ UNCHANGED <<listItems, listType>>
             ELSE /\ elements' = Flushed(i)
                  /\ listItems' = <<>>
                  /\ listType' = IF Len(listItems) > 0 THEN "null" ELSE listType
                  /\ inCodeBlock' = TRUE
                  /\ UNCHANGED codeLines
        ELSE IF inCodeBlock
        THEN /\ codeLines' = Append(codeLines, line)
             /\ UNCHANGED <<elements, inCodeBlock, listItems, listType>>
        ELSE IF IsRule(line) THEN PushBlock("hr", i, <<>>)
        ELSE IF Header(line) # <<>>
        THEN PushBlock(Header(line)[1], i, Slice(line, Header(line)[2]))
        ELSE IF StartsWithText(line, <<">", " ">>)
        THEN PushBlock("blockquote", i, Slice(line, 2))
        ELSE IF UnorderedMatch(line) # <<>> THEN PushItem("ul", i, UnorderedMatch(line))
        ELSE IF OrderedTest(line) /\ OrderedMatch(line) # <<>>
        THEN PushItem("ol", i, OrderedMatch(line))
        ELSE IF Trim(line) = <<>> THEN PushBlock("div", i, <<>>)
        ELSE PushBlock("p", i, line)
  /\ lineIndex' = lineIndex + 1
  /\ UNCHANGED <<offMarkdown, lines, rendering>>

\* after the loop: flushList(lines.length) and the return
renderMarkdown_return ==
  /\ rendering = "loop"
  /\ lineIndex = Len(lines)
  /\ elements' = Flushed(Len(lines))
  /\ listItems' = <<>>
  /\ listType' = IF Len(listItems) > 0 THEN "null" ELSE listType
  /\ rendering' = "returned"
  /\ UNCHANGED <<offMarkdown, lines, lineIndex, inCodeBlock, codeLines>>

MarkdownNext ==
  \/ renderMarkdown
  \/ renderMarkdown_line
  \/ renderMarkdown_return

SpecMarkdown == MarkdownInit /\ [][MarkdownNext]_vars

\* ------------------------------------- properties of the markdown renderer
Rendering == rendering \in {"loop", "returned"}

\* the line at 0-based index i
LineAt(i) == lines[i + 1]

FenceMarker(i) == LineAt(i) = <<Backquote, Backquote, Backquote>>

\* line i lies between an opening fence and its closing fence or the end
InsideFence(i) ==
  /\ ~FenceMarker(i)
  /\ Cardinality({j \in 0..(i - 1) : FenceMarker(j)}) % 2 = 1

\* the fence markers around a line inside a fence
OpenedAt(i) == CHOOSE o \in 0..(i - 1) :
  FenceMarker(o) /\ \A j \in (o + 1)..(i - 1) : ~FenceMarker(j)
ClosedBy(i, c) ==
  c > i /\ FenceMarker(c) /\ \A j \in (i + 1)..(c - 1) : ~FenceMarker(j)

\* the lines from index a to index b
LinesFrom(a, b) == [k \in 1..(b - a + 1) |-> LineAt(a + k - 1)]

\* the line indices that elements and pending list items were made of,
\* other than as code
BlockKeys ==
  {elements[k].key : k \in {n \in 1..Len(elements) :
                              elements[n].kind \notin {"pre", "ul", "ol"}}}
    \cup UNION {{elements[k].items[m].key : m \in 1..Len(elements[k].items)} :
                  k \in {n \in 1..Len(elements) : elements[n].kind \in {"ul", "ol"}}}
    \cup {listItems[m].key : m \in 1..Len(listItems)}

\* C19: every line between an opening code fence and its closing fence is
\* code: it is never emitted as a heading, list item, block quote, rule or
\* paragraph, it is a line of the <pre> block of its closing fence, and
\* when the fence is never closed all remaining lines are consumed as code.
C19_FencedLinesAreCode ==
  Rendering =>
    \A i \in 0..(lineIndex - 1) :
      InsideFence(i) =>
        /\ i \notin BlockKeys
        /\ IF \E c \in 0..(lineIndex - 1) : ClosedBy(i, c)
           THEN \E k \in 1..Len(elements) :
                  /\ elements[k].kind = "pre"
                  /\ ClosedBy(i, elements[k].key)
                  /\ elements[k].code = LinesFrom(OpenedAt(i) + 1, elements[k].key - 1)
           ELSE /\ inCodeBlock
                /\ codeLines = LinesFrom(OpenedAt(i) + 1, lineIndex - 1)

\* "### T" and "- a" after a fence that is never closed: nothing is
\* emitted, both lines are code
C19_Witness ==
  /\ rendering = "returned"
  /\ lines = <<<<Backquote, Backquote, Backquote>>, <<"#", "#", "#", " ", "T">>,
               <<"-", " ", "a">>>>
  /\ elements = <<>>
  /\ codeLines = <<<<"#", "#", "#", " ", "T">>, <<"-", " ", "a">>>>

\* the list type of line i: ul, ol, or none for every other line
KindAt(i) ==
  IF InsideFence(i) THEN "none"
  ELSE IF LineAt(i) \in {<<"-", " ", "a">>, <<"-", " ", "b">>} THEN "ul"
  ELSE IF LineAt(i) = <<"1", ".", " ", "c">> THEN "ol"
  ELSE "none"

\* the items are the lines first .. first + Len(items) - 1, all of one type
IsRun(type, items) ==
  /\ Len(items) > 0
  /\ \A m \in 1..Len(items) :
       /\ items[m].key = items[1].key + m - 1
       /\ KindAt(items[m].key) = type
       /\ items[m].text = <<LineAt(items[m].key)[Len(LineAt(items[m].key))]>>
  /\ items[1].key = 0 \/ KindAt(items[1].key - 1) # type

\* C20: an accumulating list block is closed and emitted exactly when a
\* non-list line is encountered, when the list type changes, or at end of
\* input; consecutive list lines of one type form one block whose items
\* are in input order.
C20_ListBlocks ==
  Rendering =>
    /\ \A k \in 1..Len(elements) :
         elements[k].kind \in {"ul", "ol"} =>
           /\ IsRun(elements[k].kind, elements[k].items)
           /\ elements[k].key = elements[k].items[Len(elements[k].items)].key + 1
           /\ elements[k].key = Len(lines) \/ KindAt(elements[k].key) # elements[k].kind
    /\ listItems # <<>> =>
         /\ IsRun(listType, listItems)
         /\ listItems[Len(listItems)].key = lineIndex - 1
    /\ \A i \in 0..(lineIndex - 1) : KindAt(i) # "none" => i \in BlockKeys
    /\ \A k, n \in 1..Len(elements) : k < n => elements[k].key <= elements[n].key
    /\ rendering = "returned" => listItems = <<>>

\* "- a", "- b", "1. c": an unordered block of two items closed at the
\* change of type, then an ordered block of one item closed at the end
C20_Witness ==
  /\ rendering = "returned"
  /\ lines = <<<<"-", " ", "a">>, <<"-", " ", "b">>, <<"1", ".", " ", "c">>>>
  /\ elements =
       <<[kind |-> "ul", key |-> 2,
          items |-> <<[key |-> 0, indent |-> 0, text |-> <<"a">>],
                      [key |-> 1, indent |-> 0, text |-> <<"b">>]>>],
         [kind |-> "ol", key |-> 3,
          items |-> <<[key |-> 2, indent |-> 0, text |-> <<"c">>]>>]>>

\* ------------------------------------------------- bounded upstream calls
CallsTo(endpoint) == Len(SelectSeq(calls, LAMBDA c : c.endpoint = endpoint))

\* the upstream calls of the request being handled stay within the chains
CallsBounded ==
  /\ IsUpload =>
       /\ Len(calls) <= 3
       /\ \A k \in 1..Len(calls) :
            calls[k].body.data_parser = <<"auto", "llmsherpa", "none">>[k]
  /\ IsDelete =>
       /\ Len(calls) <= 3 /\ CallsTo("delete") <= 2 /\ CallsTo("list") <= 1
  /\ request.method \in {"GET", "PATCH"} \/ IsPostList => Len(calls) <= 1

\* a response, once returned, stays until the request is over
OneResponse == response # NoResponse => response' \in {response, NoResponse}

\* C21: no route retries an upstream call except through the two fallback
\* chains, which are bounded: at most 3 calls per upload (one per parser),
\* at most 3 per delete (two deletes, one listing), at most 1 per list or
\* crawl; and when every upstream call returns, every request ends with
\* exactly one response.
C21_BoundedAndResponds ==
  /\ []CallsBounded
  /\ [][OneResponse]_vars
  /\ (~Idle ~> Responded)

\* an upload that went through all three parsers and was answered
C21_Witness ==
  /\ IsUpload /\ Responded /\ Len(calls) = 3
  /\ \A k \in 1..3 : calls[k].result # Pending

\* --------------------------------------------- upload route, falsy bodies
\* an attempt that returned a success status with a body that decodes
Decoded(o) == AttemptSucceeded(o) /\ o.json # SyntaxErr

\* C28: in the upload route, if any train attempt receives a success status
\* the route responds with a success envelope, whatever JSON value the body
\* decodes to (null, false, 0 and the empty string included); a failure
\* envelope is returned only when all three attempts failed.
C28_SuccessStatusGivesSuccess ==
  (IsUpload /\ Responded /\ Len(calls) > 0
     /\ \E k \in 1..Len(calls) : Decoded(calls[k].result))
    => response.status = 200 /\ response.body.success = TRUE

\* ------------------------------------------------ the answer is a string
\* C29: the answer field of every record the normalizer returns is a text
\* string (possibly empty), for every input; it is never an object, array,
\* number or boolean, even when the chosen candidate's answer, text,
\* response, content or message field holds a non-string value.
C29_AnswerIsText ==
  NormalizerReturned => IsText(extracted.value.f.answer)

\* ------------------------------------------------------- no content lost
\* element k holds line i: as its own line, as one of its list items, or
\* as one of the code lines before its closing fence
Holds(k, i) ==
  LET e == elements[k]
  IN IF e.kind \in {"ul", "ol"}
     THEN Cardinality({m \in 1..Len(e.items) : e.items[m].key = i}) = 1
     ELSE IF e.kind = "pre"
     THEN /\ e.key - Len(e.code) <= i /\ i < e.key
          /\ e.code[i - (e.key - Len(e.code)) + 1] = LineAt(i)
     ELSE e.key = i

\* the first line an element was made of
FirstLine(k) ==
  LET e == elements[k]
  IN IF e.kind \in {"ul", "ol"} THEN e.items[1].key
     ELSE IF e.kind = "pre" THEN e.key - Len(e.code)
     ELSE e.key

\* C30: the renderer loses no content: for a non-empty text, every line
\* other than a fence marker line is held by exactly one emitted block and
\* the blocks are in line order; the lines after a code fence that is never
\* closed are in the output as a code block.
C30_NoContentLost ==
  rendering = "returned" =>
    /\ \A i \in 0..(Len(lines) - 1) :
         ~FenceMarker(i) =>
           Cardinality({k \in 1..Len(elements) : Holds(k, i)}) = 1
    /\ \A k \in 1..(Len(elements) - 1) : FirstLine(k) < FirstLine(k + 1)

\* ------------------------------------------------------------ new session
\* the only step that replaces the session id or shortens the chat
NewSessionStep == sessionId' # sessionId \/ Len(messages') < Len(messages)

\* C22: the new-session action empties the chat messages, replaces the
\* session id with a generated token, clears the input text and leaves the
\* audit log unchanged; entries appended before it keep their session id,
\* and every entry appended carries the session id current when it is
\* appended.
C22_NewSession ==
  [][/\ NewSessionStep =>
          /\ messages' = <<>>
          /\ sessionId' \in Ids
          /\ inputValue' = <<>>
          /\ auditLog' = auditLog
     /\ Len(auditLog') >= Len(auditLog)
     /\ SubSeq(auditLog', 1, Len(auditLog)) = auditLog
     /\ auditLog' # auditLog =>
          /\ Len(auditLog') = Len(auditLog) + 1
          /\ auditLog'[Len(auditLog')].sessionId = sessionId
          /\ sessionId' = sessionId]_vars

\* an entry of the previous session is kept with its id next to an entry of
\* the session started after it
C22_Witness ==
  /\ Len(auditLog) = 2
  /\ auditLog[1].sessionId # sessionId
  /\ auditLog[2].sessionId = sessionId
  /\ Len(messages) = 2

\* ------------------------------------------------------ one call in flight
InFlight == {k \in 1..Len(agentCalls) : agentCalls[k].result = Pending}

\* C24: at most one agent call is in flight at any time; while a call has
\* not completed no message is appended by a further send, no second call
\* is started and no new session begins: the only change to the chat is the
\* one message appended when the call settles.
C24_OneCallInFlight ==
  /\ [](Cardinality(InFlight) <= 1)
  /\ [](isLoading <=> InFlight # {})
  /\ [][InFlight # {} =>
          /\ Len(agentCalls') = Len(agentCalls)
          /\ ~NewSessionStep
          /\ \/ messages' = messages
             \/ /\ InFlight' = {}
                /\ Len(messages') = Len(messages) + 1
                /\ messages'[Len(messages')].role = "agent"]_vars

\* the second exchange of a session is awaited, the first one is complete
C24_Witness ==
  /\ Len(agentCalls) = 2
  /\ InFlight = {2}
  /\ Len(messages) = 3
  /\ isLoading

\* ------------------------------------------------------- alternating roles
RoleAt(k) == IF k % 2 = 1 THEN "user" ELSE "agent"

\* the agent message at position k answers the user message before it: it
\* is the answer of the exchange or its error message
Answers(k) ==
  /\ messages[k].role = "agent"
  /\ \/ IsErrorMessage(messages[k])
     \/ "parsedResponse" \in DOMAIN messages[k]
           /\ messages[k].parsedResponse.answer = messages[k].content

\* C25: the chat messages alternate roles starting with a user message;
\* whenever no agent call is in flight the length is even and every user
\* message is immediately followed by exactly one agent message, the answer
\* or the error message of that exchange.
C25_AlternatingRoles ==
  /\ \A k \in 1..Len(messages) : messages[k].role = RoleAt(k)
  /\ ~isLoading =>
       /\ Len(messages) % 2 = 0
       /\ \A k \in 1..Len(messages) : k % 2 = 0 => Answers(k)
  /\ isLoading => Len(messages) % 2 = 1

\* two complete exchanges, one answered and one that ended in the error
\* message
C25_Witness ==
  /\ ~isLoading
  /\ Len(messages) = 4
  /\ \E k \in {2, 4} : IsErrorMessage(messages[k])
  /\ \E k \in {2, 4} : "parsedResponse" \in DOMAIN messages[k]

\* ==================================================== the inline formatter
\* formatInline(text): the text of a header, paragraph, quote or list item
\* is cut into plain, bold, italic and inline-code nodes.

\* the length of the generated texts
MaxInline == 4

InlineChars == {"*", Backquote, "a"}

\* lines with two spans
InlineSamples ==
  {<<"*", "a", "*", " ", "*", "*", "a", "*", "*">>,
   <<Backquote, "a", Backquote, " ", "*", "*", "a", "*", "*">>,
   <<Backquote, "a", Backquote, " ", "*", "a", "*">>,
   <<"*", "*", "a", "*", "*", " ", "*", "a", "*">>,
   <<"*", "*", "a", "*", "*", " ", Backquote, "a", Backquote>>,
   <<"a", " ", "*", "a", "*", " ", Backquote, "a", Backquote>>}

InlineTexts == SeqsUpTo(InlineChars, MaxInline) \cup InlineSamples

Least(S) == CHOOSE x \in S : \A y \in S : x <= y

\* the mark stands at position p of the text
MarkAt(text, p, mark) ==
  /\ p + Len(mark) - 1 <= Len(text)
  /\ SubSeq(text, p, p + Len(mark) - 1) = mark

\* where a second mark can follow the one at p
Closings(text, p, mark) ==
  {q \in (p + Len(mark))..Len(text) : MarkAt(text, q, mark)}

\* text.match(/^(.*?)MARK(.*?)MARK(.*)$/s): both lazy groups take the
\* shortest text that lets the rest match; null without two marks
Match(text, mark) ==
  LET openings == {p \in 1..Len(text) :
                     MarkAt(text, p, mark) /\ Closings(text, p, mark) # {}}
  IN IF openings = {} THEN Null
     ELSE LET p == Least(openings)
              q == Least(Closings(text, p, mark))
          IN <<SubSeq(text, 1, p - 1),
               SubSeq(text, p + Len(mark), q - 1),
               SubSeq(text, q + Len(mark), Len(text))>>

boldMatch(text) == Match(text, <<"*", "*">>)
italicMatch(text) == Match(text, <<"*">>)
codeMatch(text) == Match(text, <<Backquote>>)

Node(kind, text) == [kind |-> kind, text |-> text]

\* the plain text before the span, when there is some, then the span
PushSpan(kind, match) ==
  /\ tokens' = (IF match[1] # <<>> THEN Append(tokens, Node("Fragment", match[1]))
                ELSE tokens) \o <<Node(kind, match[2])>>
  /\ remaining' = match[3]

InlineInit ==
  /\ RouteIdle /\ NormalizerIdle /\ ChatIdle /\ MarkdownIdle /\ KbIdle
  /\ inlineText \in InlineTexts
  /\ formatting = "called"
  /\ remaining = <<>>
  /\ tokens = <<>>
  /\ formatted = Undefined

offInline == <<routeVars, normalizerVars, chatVars, markdownVars, kbVars>>

\* formatInline up to its while-loop
formatInline ==
  /\ formatting = "called"
  /\ remaining' = inlineText
  /\ tokens' = <<>>
  /\ formatting' = "loop"
  /\ UNCHANGED <<offInline, inlineText, formatted>>

\* one pass of the while-loop: bold is tried first, then italic, then inline
\* code, each over the whole of what remains
formatInline_pass ==
  /\ formatting = "loop"
  /\ Len(remaining) > 0
  /\ IF boldMatch(remaining) # Null
     THEN PushSpan("strong", boldMatch(remaining)) /\ UNCHANGED formatting
     ELSE IF italicMatch(remaining) # Null
     THEN PushSpan("em", italicMatch(remaining)) /\ UNCHANGED formatting
     ELSE IF codeMatch(remaining) # Null
     THEN PushSpan("code", codeMatch(remaining)) /\ UNCHANGED formatting
     ELSE /\ tokens' = Append(tokens, Node("Fragment", remaining))
          /\ formatting' = "break"
          /\ UNCHANGED remaining
  /\ UNCHANGED <<offInline, inlineText, formatted>>

\* the return after the loop: the only node, or a fragment of the nodes
formatInline_return ==
  /\ \/ formatting = "loop" /\ Len(remaining) = 0
     \/ formatting = "break"
  /\ formatted' = IF Len(tokens) = 1 THEN tokens[1]
                  ELSE [kind |-> "Fragments", children |-> tokens]
  /\ formatting' = "returned"
  /\ UNCHANGED <<offInline, inlineText, remaining, tokens>>

InlineNext == formatInline \/ formatInline_pass \/ formatInline_return

SpecInline == InlineInit /\ [][InlineNext]_vars

\* ------------------------------------------ properties of the formatter
InlineMarks == {"*", Backquote}

PlainRun(text, from, to) ==
  /\ from <= to
  /\ \A k \in from..to : text[k] \notin InlineMarks

\* a star that is no part of a pair of stars
SingleStar(text, p) ==
  /\ text[p] = "*"
  /\ p = 1 \/ text[p - 1] # "*"
  /\ p = Len(text) \/ text[p + 1] # "*"

\* the spans of a line as markdown reads them: **text**, *text* and a text
\* between backquotes, each around plain text
SpansOf(text) ==
  LET P == 1..Len(text)
  IN {[kind |-> "strong", from |-> p, to |-> q + 1,
       text |-> SubSeq(text, p + 2, q - 1)] :
        <<p, q>> \in {pq \in P \X P :
           /\ MarkAt(text, pq[1], <<"*", "*">>) /\ MarkAt(text, pq[2], <<"*", "*">>)
           /\ PlainRun(text, pq[1] + 2, pq[2] - 1)}}
     \cup
     {[kind |-> "em", from |-> p, to |-> q, text |-> SubSeq(text, p + 1, q - 1)] :
        <<p, q>> \in {pq \in P \X P :
           /\ SingleStar(text, pq[1]) /\ SingleStar(text, pq[2])
           /\ PlainRun(text, pq[1] + 1, pq[2] - 1)}}
     \cup
     {[kind |-> "code", from |-> p, to |-> q, text |-> SubSeq(text, p + 1, q - 1)] :
        <<p, q>> \in {pq \in P \X P :
           /\ text[pq[1]] = Backquote /\ text[pq[2]] = Backquote
           /\ PlainRun(text, pq[1] + 1, pq[2] - 1)}}

\* the spans do not overlap and every mark of the line belongs to one
WellMarked(text) ==
  /\ \A a, b \in SpansOf(text) : a = b \/ a.to < b.from \/ b.to < a.from
  /\ \A k \in 1..Len(text) :
       text[k] \in InlineMarks =>
         \E a \in SpansOf(text) : a.from <= k /\ k <= a.to

\* the span that starts first
Leading(text) ==
  CHOOSE a \in SpansOf(text) : \A b \in SpansOf(text) : a.from <= b.from

NodesOf(node) == IF node.kind = "Fragments" THEN node.children ELSE <<node>>

SpanNodes(node) == SelectSeq(NodesOf(node), LAMBDA n : n.kind # "Fragment")

InlineReturned == formatting = "returned"

\* C23: on a line whose bold, italic and inline-code spans do not overlap,
\* the span that starts first is emitted first, as that span: an italic or
\* inline-code span before a bold span is emitted as italic or code, not as
\* plain text.
C23_FirstSpanFirst ==
  (InlineReturned /\ WellMarked(inlineText) /\ SpansOf(inlineText) # {}) =>
    /\ SpanNodes(formatted) # <<>>
    /\ SpanNodes(formatted)[1] =
         Node(Leading(inlineText).kind, Leading(inlineText).text)

\* =============================================== a knowledge-base section
\* KBSection: loadDocs, handleUpload and handleDelete of one section.  The
\* three calls of the client library are awaited; what they resolve to, or
\* that they reject, is the environment's choice.

\* the operations started in one run
MaxOperations == 3

KbFiles == {"a.pdf", "b.txt"}

\* result.documents of a listing that succeeded
KbListings == {<<>>, <<"a.pdf">>, <<"a.pdf", "b.txt">>}

\* what an awaited library call settles to: a result object, or a rejection
Result(success, documents, error) ==
  [t |-> "result", success |-> success, documents |-> documents, error |-> error]

Thrown == [t |-> "thrown"]

\* documents is Undefined where the result holds no array
ListResults ==
  {Result(TRUE, JsArray(l), <<>>) : l \in KbListings}
    \cup {Result(TRUE, Undefined, <<>>), Result(FALSE, Undefined, <<>>),
          Result(FALSE, Undefined, <<"Server error">>), Thrown}

ChangeResults ==
  {Result(TRUE, Undefined, <<>>), Result(FALSE, Undefined, <<>>),
   Result(FALSE, Undefined, <<"Server error">>), Thrown}

\* result.error || fallback
ErrorOr(result, fallback) == IF result.error # <<>> THEN result.error ELSE <<fallback>>

UploadedText(name) == <<"\"", name, "\" uploaded successfully">>
DeletedText(name) == <<"\"", name, "\" deleted">>

Operation(kind, name) == [kind |-> kind, name |-> name, at |-> "call"]

\* an operation has been started and its handler has not returned
Running(op) == op.at # "done"

KbInit ==
  /\ RouteIdle /\ NormalizerIdle /\ ChatIdle /\ MarkdownIdle /\ InlineIdle
  /\ docs = <<>>
  /\ loading = FALSE
  /\ statusMsg = <<>>
  /\ mounted = FALSE
  /\ operations = <<>>

offKb == <<routeVars, normalizerVars, chatVars, markdownVars, inlineVars>>

\* loadDocs up to its await
LoadStarts ==
  /\ loading' = TRUE
  /\ statusMsg' = <<>>

\* loadDocs from its await on, for the result the listing settled to
Loaded(result) ==
  /\ IF result.t = "thrown"
     THEN statusMsg' = <<"Error loading documents">> /\ UNCHANGED docs
     ELSE IF result.success /\ result.documents.t = "array"
     THEN docs' = result.documents.a /\ UNCHANGED statusMsg
     ELSE statusMsg' = ErrorOr(result, "Failed to load documents") /\ UNCHANGED docs
  /\ loading' = FALSE

\* the mount effect: useEffect(() => { loadDocs() }, [loadDocs])
useEffect ==
  /\ ~mounted
  /\ mounted' = TRUE
  /\ LoadStarts
  /\ operations' = Append(operations, Operation("list", ""))
  /\ UNCHANGED <<offKb, docs>>

\* the Refresh button, disabled while loading
loadDocs ==
  /\ mounted /\ ~loading
  /\ Len(operations) < MaxOperations
  /\ LoadStarts
  /\ operations' = Append(operations, Operation("list", ""))
  /\ UNCHANGED <<offKb, docs, mounted>>

\* a listing started by the mount effect or the Refresh button settles
loadDocs_settled ==
  \E k \in 1..Len(operations), result \in ListResults :
    /\ operations[k].kind = "list" /\ operations[k].at = "call"
    /\ Loaded(result)
    /\ operations' = [operations EXCEPT ![k].at = "done"]
    /\ UNCHANGED <<offKb, mounted>>

\* handleUpload up to its await: a file dropped on the section or chosen in
\* its file input, neither of which looks at the loading flag
handleUpload ==
  /\ mounted
  /\ Len(operations) < MaxOperations
  /\ \E file \in KbFiles :
       operations' = Append(operations, Operation("upload", file))
  /\ loading' = TRUE
  /\ statusMsg' = <<>>
  /\ UNCHANGED <<offKb, docs, mounted>>

\* handleDelete up to its await: the bin button of a listed document, disabled
\* while loading
handleDelete ==
  /\ mounted /\ ~loading
  /\ Len(operations) < MaxOperations
  /\ \E d \in 1..Len(docs) :
       operations' = Append(operations, Operation("delete", docs[d]))
  /\ loading' = TRUE
  /\ statusMsg' = <<>>
  /\ UNCHANGED <<offKb, docs, mounted>>

\* the rest of handleUpload or handleDelete when its call settles.  On
\* success setStatusMsg(successText) is followed at once by the call of
\* loadDocs, which runs up to its own await before the handler is suspended
\* again: its setStatusMsg('') is the last write of the step.
Changed(k, result, successText, failedText, errorText) ==
  /\ IF result.t = "thrown"
     THEN /\ statusMsg' = <<errorText>>
          /\ loading' = FALSE
          /\ operations' = [operations EXCEPT ![k].at = "done"]
     ELSE IF result.success
     THEN /\ LoadStarts
          /\ operations' = [operations EXCEPT ![k].at = "reload"]
     ELSE /\ statusMsg' = ErrorOr(result, failedText)
          /\ loading' = FALSE
          /\ operations' = [operations EXCEPT ![k].at = "done"]
  /\ UNCHANGED <<offKb, docs, mounted>>

handleUpload_settled ==
  \E k \in 1..Len(operations), result \in ChangeResults :
    /\ operations[k].kind = "upload" /\ operations[k].at = "call"
    /\ Changed(k, result, UploadedText(operations[k].name),
               "Upload failed", "Error uploading file")

handleDelete_settled ==
  \E k \in 1..Len(operations), result \in ChangeResults :
    /\ operations[k].kind = "delete" /\ operations[k].at = "call"
    /\ Changed(k, result, DeletedText(operations[k].name),
               "Delete failed", "Error deleting document")

\* the reload awaited by handleUpload or handleDelete settles: loadDocs
\* finishes, then the handler sets the loading flag to false and returns
reload_settled ==
  \E k \in 1..Len(operations), result \in ListResults :
    /\ operations[k].at = "reload"
    /\ Loaded(result)
    /\ operations' = [operations EXCEPT ![k] =
         [kind |-> @.kind, name |-> @.name, at |-> "done",
          reloaded |-> result.t = "result" /\ result.success
                         /\ result.documents.t = "array"]]
    /\ UNCHANGED <<offKb, mounted>>

KbNext ==
  \/ useEffect \/ loadDocs \/ loadDocs_settled
  \/ handleUpload \/ handleUpload_settled
  \/ handleDelete \/ handleDelete_settled
  \/ reload_settled

SpecKb == KbInit /\ [][KbNext]_vars

\* ------------------------------------------- properties of the section
\* C26: the loading flag is true whenever a list, upload or delete operation
\* of the section is in flight, under every interleaving of user actions; it
\* is false only when no operation remains in flight.
C26_LoadingWhileInFlight ==
  (\E k \in 1..Len(operations) : Running(operations[k])) => loading

\* the success text of an upload or a delete
SuccessText(op) ==
  IF op.kind = "upload" THEN UploadedText(op.name) ELSE DeletedText(op.name)

\* operation k returns in this step, after a reload that succeeded
ReturnsReloaded(k) ==
  /\ operations[k].at = "reload"
  /\ operations'[k].at = "done"
  /\ operations'[k].reloaded

\* C27: when handleUpload or handleDelete completes for an operation that
\* was reported successful, the reload it triggers included and successful,
\* the status message is the success text of that operation.
C27_SuccessTextShown ==
  [][\A k \in 1..Len(operations) :
       ReturnsReloaded(k) => statusMsg' = SuccessText(operations[k])]_vars

====
